---- MODULE Spec2Model ----
(***************************************************************************)
(* Translation item collection (librustc_trans/collector.rs).              *)
(*                                                                         *)
(* The collector walks the graph of monomorphized translation items        *)
(* depth-first, starting at the roots found in the HIR.  The recursion of  *)
(* collect_items_rec is modelled with an explicit stack of frames; one     *)
(* action is one call of collect_items_rec up to its first nested call     *)
(* (or its early return), one return of it, or the start/end of            *)
(* collect_crate_translation_items.                                        *)
(***************************************************************************)
EXTENDS Integers, Sequences, FiniteSets, TLC

VARIABLES
    scx,              \* the SharedCrateContext: the crate and the session's limits
    mode,             \* TransItemCollectionMode of the run
    status,           \* "idle" | "running" | "done" | "fatal"
    roots,            \* the roots still to be iterated by `for root in roots`
    visited,          \* FxHashSet<TransItem>
    recursion_depths, \* DefIdMap<usize>
    inlining_map,     \* InliningMap { index, targets }
    stack,            \* active calls of collect_items_rec, innermost last
    diagnostics,      \* what the session's diagnostic sink has received
    returned,         \* the value collect_crate_translation_items returned
    last,             \* the step of collect_items_rec taken last
    outcomes          \* outcomes of the earlier runs over the same input

vars == <<scx, mode, status, roots, visited, recursion_depths, inlining_map,
          stack, diagnostics, returned, last, outcomes>>

(***************************************************************************)
(* Bounds of the model.                                                    *)
(***************************************************************************)
MaxRecursionLimit == 2
MaxTypeLengthLimit == 4
MaxSiblings == 3
MaxRuns == 2

(***************************************************************************)
(* Types.  A type is a term [con, args]; "Param0"/"Param1" are the type    *)
(* parameters of a generic definition, everything else is concrete.        *)
(***************************************************************************)
\* a let binding: the value v is computed once and F is applied to it
Bind(v, F(_)) == CHOOSE r \in {F(x) : x \in {v}} : TRUE

None == <<>>
Some(x) == <<x>>

Ty(c, a) == [con |-> c, args |-> a]
U32 == Ty("u32", <<>>)
Guard == Ty("Guard", <<>>)
Param0 == Ty("Param0", <<>>)
Param1 == Ty("Param1", <<>>)
Wrap(t) == Ty("Wrap", <<t>>)
Ref(t) == Ty("&", <<t>>)
RawPtr(t) == Ty("*", <<t>>)
Box(t) == Ty("Box", <<t>>)
Rc(t) == Ty("Rc", <<t>>)
Array(t) == Ty("Array", <<t>>)
Slice(t) == Ty("Slice", <<t>>)
Circle == Ty("Circle", <<>>)
Holder == Ty("Holder", <<>>)
Borrowed == Ty("Borrowed", <<>>)
Gen(t) == Ty("Gen", <<t>>)
Str == Ty("str", <<>>)
\* a chain of structs: Link(1) has a Guard field, Link(n + 1) a Link(n) field
LinkName == <<"Link1", "Link2", "Link3", "Link4", "Link5">>
Link(n) == Ty(LinkName[n], <<>>)
String == Ty("String", <<>>)
\* a function pointer type, and the type of the function definition d<ss>
FnPtr == Ty("fn()", <<>>)
FnDef(d, ss) == Ty("FnDef", <<Ty(d, ss)>>)
Unit == Ty("()", <<>>)
\* the trait object type whose principal trait is tr
Dynamic(tr) == Ty("Dynamic", <<Ty(tr, <<>>)>>)

RECURSIVE WrapN(_, _)
WrapN(n, t) == IF n = 0 THEN t ELSE Wrap(WrapN(n - 1, t))

\* the sum of s[i..Len(s)]
RECURSIVE SumFrom(_, _)
SumFrom(s, i) == IF i > Len(s) THEN 0 ELSE s[i] + SumFrom(s, i + 1)

SumSeq(s) == SumFrom(s, 1)

\* ty.walk().count(): the type itself and, recursively, every type inside it
RECURSIVE walk_count(_)
walk_count(t) == 1 + SumSeq([i \in 1..Len(t.args) |-> walk_count(t.args[i])])

\* monomorphize::apply_param_substs on a type
RECURSIVE apply_param_substs(_, _)
apply_param_substs(param_substs, t) ==
    IF t.con = "Param0" THEN param_substs[1]
    ELSE IF t.con = "Param1" THEN param_substs[2]
    ELSE Ty(t.con, [i \in 1..Len(t.args) |-> apply_param_substs(param_substs, t.args[i])])

apply_param_substs_list(param_substs, ts) ==
    [i \in 1..Len(ts) |-> apply_param_substs(param_substs, ts[i])]

\* TypeFoldable::needs_subst: an unresolved type parameter occurs in the type
RECURSIVE needs_subst(_)
needs_subst(t) ==
    \/ t.con \in {"Param0", "Param1"}
    \/ \E i \in 1..Len(t.args) : needs_subst(t.args[i])

\* whether values of the type have a destructor to run
RECURSIVE needs_drop(_)
needs_drop(t) ==
    /\ t.con \notin {"&", "*", "FnDef"}
    /\ \/ t.con \in {"Guard", "String", "Dynamic", "Box", "Rc", "Holder", "Borrowed"}
       \/ t.con \in {LinkName[n] : n \in 1..Len(LinkName)}
       \/ \E i \in 1..Len(t.args) : needs_drop(t.args[i])

(***************************************************************************)
(* The input program: the HIR item list, the definition registry, and the  *)
(* lowered (MIR) body of every definition as the list of the constructs    *)
(* the MirNeighborCollector looks at.                                      *)
(***************************************************************************)
\* MIR constructs
Call(d, ss) == [op |-> "Call", def_id |-> d, substs |-> ss]
Reify(d, ss) == [op |-> "Reify", def_id |-> d, substs |-> ss]
Drop(t) == [op |-> "Drop", def_id |-> "", substs |-> <<t>>]
\* a cast of a value of the closure type [closure d]<ss> to a function pointer
ClosureFnPtr(d, ss) == [op |-> "ClosureFnPointer", def_id |-> d, substs |-> ss]
\* an unsizing cast of an operand of type source to the type target
Unsize(source, target) == [op |-> "Unsize", def_id |-> "", substs |-> <<source, target>>]

\* Rvalue::Box: a heap allocation
BoxNew == [op |-> "Box", def_id |-> "", substs |-> <<>>]
\* Rvalue::Aggregate with AggregateKind::Closure: a closure value is built
AggregateClosure(d, ss) == [op |-> "Aggregate", def_id |-> d, substs |-> ss]
\* a constant operand whose type is the function definition d<ss>
FnConst(d, ss) == [op |-> "FnConstant", def_id |-> d, substs |-> ss]
\* a constant operand with the literal Item { d, ss }
Const(d, ss) == [op |-> "Constant", def_id |-> d, substs |-> ss]

\* HIR item-likes
\* generics: the number of type parameters; lifetimes: of lifetime parameters
HirItemLt(n, d, g, l) ==
    [node |-> n, id |-> d, generics |-> g, impl_generics |-> 0, lifetimes |-> l]
HirItem(n, d, g) == HirItemLt(n, d, g, 0)
ImplItem(d, g, ig) ==
    [node |-> "ImplItemMethod", id |-> d, generics |-> g, impl_generics |-> ig,
     lifetimes |-> 0]
\* an impl block: its type parameters, its trait reference (None for an
\* inherent impl, Some(<<trait, self type>>) otherwise) and the names of its items
HirImpl(d, g, tr, names) ==
    [node |-> "ItemImpl", id |-> d, generics |-> g, impl_generics |-> g,
     lifetimes |-> 0, trait_ref |-> tr, impl_item_refs |-> names]

\* generics.is_type_parameterized() and generics.is_parameterized()
is_type_parameterized(item) == item.generics > 0
is_parameterized(item) == item.generics > 0 \/ item.lifetimes > 0

\* Registry entries
LocalFn(b) ==
    [kind |-> "fn", krate |-> "local", foreign |-> FALSE, exported |-> FALSE,
     mir_available |-> TRUE, inline |-> FALSE, ty |-> <<>>, body |-> b,
     closure_kind |-> "", fields |-> <<>>, methods |-> <<>>, impls |-> <<>>,
     provided |-> <<>>, types |-> 0, predicates |-> {}]
InlineFn(b) == [LocalFn(b) EXCEPT !.inline = TRUE]
LocalStatic(t, b) == [LocalFn(b) EXCEPT !.kind = "static", !.ty = <<t>>]
LocalStruct(t) == [LocalFn(<<>>) EXCEPT !.kind = "struct", !.ty = <<t>>]
\* a closure expression: its kind (Fn, FnMut, FnOnce) and its body
LocalClosure(k, b) == [InlineFn(b) EXCEPT !.kind = "closure", !.closure_kind = k]
\* a struct with its field types, in terms of its type parameters
StructWith(t, fs) == [LocalStruct(t) EXCEPT !.fields = fs]
\* a trait: the methods of its vtable, supertraits' first, with None for a
\* method that has no vtable entry
Trait(ms) == [LocalFn(<<>>) EXCEPT !.kind = "trait", !.methods = ms]
\* a trait with its provided methods
TraitWith(ms, ps) == [Trait(ms) EXCEPT !.provided = ps]
\* a trait method: its provided body, and for each implementing type
\* constructor the method of the impl that overrides it
TraitMethod(b, is) == [LocalFn(b) EXCEPT !.kind = "trait_method", !.impls = is]
\* a provided (default) method of a trait: its definition and its name
Provided(d, n) == [def_id |-> d, name |-> n]
\* a trait method with g type parameters of its own and the predicates ps
TraitMethodWhere(b, is, g, ps) ==
    [TraitMethod(b, is) EXCEPT !.types = g, !.predicates = ps]
ForeignFn == [LocalFn(<<>>) EXCEPT !.foreign = TRUE, !.mir_available = FALSE]
UpstreamFn(exp, mir, b) ==
    [kind |-> "fn", krate |-> "upstream", foreign |-> FALSE, exported |-> exp,
     mir_available |-> mir, inline |-> FALSE, ty |-> <<>>, body |-> b,
     closure_kind |-> "", fields |-> <<>>, methods |-> <<>>, impls |-> <<>>,
     provided |-> <<>>, types |-> 0, predicates |-> {}]
Intrinsic ==
    [kind |-> "intrinsic", krate |-> "upstream", foreign |-> TRUE, exported |-> FALSE,
     mir_available |-> FALSE, inline |-> FALSE, ty |-> <<>>, body |-> <<>>,
     closure_kind |-> "", fields |-> <<>>, methods |-> <<>>, impls |-> <<>>,
     provided |-> <<>>, types |-> 0, predicates |-> {}]

\* tcx.lang_items.drop_in_place_fn()
drop_in_place_fn == "drop_in_place"

\* tcx.lang_items.require(ExchangeMallocFnLangItem): every program of the
\* catalogue has the item, an #[inline] function of the allocation crate
exchange_malloc_fn == "exchange_malloc"

\* definitions every program links against
CoreDefs ==
    [d \in {drop_in_place_fn, exchange_malloc_fn, "call_mut", "call_once"} |->
        IF d \in {drop_in_place_fn, exchange_malloc_fn} THEN UpstreamFn(FALSE, TRUE, <<>>)
        ELSE [UpstreamFn(FALSE, FALSE, <<>>) EXCEPT !.kind = "fn_trait_method"]]

Program(h, ds) == [hir |-> h, defs |-> ds @@ CoreDefs]

\* f<T> calls f<Wrap<T>>: every nested instantiation is a new item
ProgGrow ==
    Program(<<HirItem("ItemFn", "main", 0), HirItem("ItemFn", "f", 1)>>,
            [d \in {"main", "f"} |->
                IF d = "main" THEN LocalFn(<<Call("f", <<U32>>)>>)
                ELSE LocalFn(<<Call("f", <<Wrap(Param0)>>)>>)])

\* r<T> calls r<T>, a and b call each other: cycles at a fixed substitution
ProgCycle ==
    Program(<<HirItem("ItemFn", "main", 0), HirItem("ItemFn", "r", 1),
              HirItem("ItemFn", "a", 1), HirItem("ItemFn", "b", 1),
              HirItem("ItemFn", "helper", 0)>>,
            [d \in {"main", "r", "a", "b", "helper"} |->
                CASE d = "main" -> LocalFn(<<Call("r", <<U32>>), Call("a", <<Wrap(U32)>>),
                                             Call("helper", <<>>)>>)
                  [] d = "r" -> LocalFn(<<Call("r", <<Param0>>)>>)
                  [] d = "a" -> LocalFn(<<Call("b", <<Param0>>), Call("helper", <<>>)>>)
                  [] d = "b" -> InlineFn(<<Call("a", <<Param0>>), Reify("r", <<U32>>)>>)
                  [] OTHER -> InlineFn(<<>>)])

\* main calls id<T> at k sibling types
ProgSiblings(k) ==
    Program(<<HirItem("ItemFn", "main", 0), HirItem("ItemFn", "id", 1)>>,
            [d \in {"main", "id"} |->
                IF d = "main"
                THEN LocalFn([i \in 1..k |-> Call("id", <<WrapN(i - 1, U32)>>)])
                ELSE InlineFn(<<>>)])

\* p<A, B> calls p<B, Wrap<A>> and q<A>: two type arguments
ProgPair ==
    Program(<<HirItem("ItemFn", "main", 0), HirItem("ItemFn", "p", 2),
              HirItem("ItemFn", "q", 1)>>,
            [d \in {"main", "p", "q"} |->
                CASE d = "main" -> LocalFn(<<Call("p", <<U32, U32>>)>>)
                  [] d = "p" -> LocalFn(<<Call("q", <<Param0>>),
                                          Call("p", <<Param1, Wrap(Param0)>>)>>)
                  [] OTHER -> LocalFn(<<>>)])

\* destructors: a static and a struct with a droppable field, explicit drops
ProgDrop ==
    Program(<<HirItem("ItemStatic", "S", 0), HirItem("ItemStruct", "Guard", 0),
              ImplItem("Guard_drop", 0, 0),
              HirItem("ItemStruct", "Wrap", 1), HirItem("ItemConst", "K", 0),
              HirItem("ItemFn", "main", 0), HirItem("ItemFn", "g", 1)>>,
            [d \in {"S", "Guard", "Guard_drop", "Wrap", "K", "main", "g"} |->
                CASE d = "S" -> LocalStatic(Wrap(Guard), <<Reify("g", <<U32>>)>>)
                  [] d = "Guard" -> LocalStruct(Guard)
                  [] d = "Wrap" -> LocalStruct(Wrap(Param0))
                  [] d = "K" -> [LocalFn(<<>>) EXCEPT !.kind = "const"]
                  [] d = "main" -> LocalFn(<<Call("g", <<Wrap(Guard)>>), Drop(U32)>>)
                  [] d = "g" -> LocalFn(<<Drop(Wrap(Param0)), Drop(Param0)>>)
                  [] OTHER -> LocalFn(<<>>)])

\* closures cast to function pointers, in a plain and in a generic function
ProgClosure ==
    Program(<<HirItem("ItemFn", "main", 0), HirItem("ItemFn", "f", 1)>>,
            [d \in {"main", "f", "main_closure", "f_closure"} |->
                CASE d = "main" -> LocalFn(<<ClosureFnPtr("main_closure", <<>>),
                                             Call("f", <<U32>>)>>)
                  [] d = "f" -> LocalFn(<<ClosureFnPtr("f_closure", <<Param0>>)>>)
                  [] OTHER -> LocalClosure("Fn", <<>>)])

\* trait objects: Shape has the supertrait Base, a provided method and a
\* generic method; Display and String are defined upstream
ProgVtable ==
    Program(<<HirItem("ItemFn", "main", 0), HirItem("ItemFn", "h", 1),
              HirItem("ItemStruct", "Circle", 0),
              HirItem("ItemTrait", "Base", 0), HirItem("ItemTrait", "Shape", 0),
              ImplItem("Circle_area", 0, 0), ImplItem("Circle_name", 0, 0)>>,
            [d \in {"main", "h", "Circle", "Base", "Shape", "Base_area", "Shape_name",
                    "Shape_describe", "Shape_make", "Circle_area", "Circle_name",
                    "Display", "Display_fmt", "String_fmt", "Rc", "Wrap"} |->
                CASE d = "main" ->
                        LocalFn(<<Unsize(Ref(Circle), Ref(Dynamic("Shape"))),
                                  Unsize(Ref(Array(U32)), Ref(Slice(U32))),
                                  Unsize(Box(String), Box(Dynamic("Display"))),
                                  Unsize(Ref(Circle), RawPtr(Dynamic("Base"))),
                                  Unsize(Ref(Wrap(Circle)), Ref(Wrap(Dynamic("Shape")))),
                                  Call("h", <<Circle>>)>>)
                  [] d = "h" -> LocalFn(<<Unsize(Rc(Param0), Rc(Dynamic("Base")))>>)
                  [] d = "Circle" -> StructWith(Circle, <<U32>>)
                  [] d = "Wrap" -> StructWith(Wrap(Param0), <<U32, Param0>>)
                  [] d = "Rc" -> [StructWith(Rc(Param0), <<RawPtr(Param0)>>)
                                     EXCEPT !.krate = "upstream"]
                  [] d = "Base" -> Trait(<<Some("Base_area")>>)
                  [] d = "Shape" -> Trait(<<Some("Base_area"), Some("Shape_name"),
                                            Some("Shape_describe"), None>>)
                  [] d = "Base_area" -> TraitMethod(<<>>, <<<<"Circle", "Circle_area">>>>)
                  [] d = "Shape_name" -> TraitMethod(<<>>, <<<<"Circle", "Circle_name">>>>)
                  [] d = "Shape_describe" ->
                        TraitMethod(<<Call("Shape_name", <<Param0>>)>>, <<>>)
                  [] d = "Shape_make" -> TraitMethod(<<>>, <<>>)
                  [] d = "Circle_area" -> LocalFn(<<>>)
                  [] d = "Circle_name" -> LocalFn(<<>>)
                  [] d = "Display" -> [Trait(<<Some("Display_fmt")>>)
                                          EXCEPT !.krate = "upstream"]
                  [] d = "Display_fmt" ->
                        [TraitMethod(<<>>, <<<<"String", "String_fmt">>>>)
                            EXCEPT !.krate = "upstream"]
                  [] OTHER -> UpstreamFn(TRUE, TRUE, <<>>)])

\* item-likes of every kind the RootCollector looks at; no body refers to
\* Holder, Borrowed or the methods of Tr
ProgRoots ==
    Program(<<HirItem("ItemFn", "main", 0), HirItemLt("ItemFn", "lt_fn", 0, 1),
              HirItem("ItemFn", "gen_fn", 1),
              HirItem("ItemStatic", "S2", 0), HirItem("ItemConst", "K", 0),
              HirItem("ItemStruct", "Guard", 0),
              HirImpl("impl_Drop_Guard", 0, Some(<<"Drop", Guard>>), {"drop"}),
              ImplItem("Guard_drop", 0, 0),
              HirItem("ItemStruct", "Holder", 0),
              HirItemLt("ItemStruct", "Borrowed", 0, 1),
              HirItem("ItemStruct", "Gen", 1),
              HirItem("ItemEnum", "E", 0), HirItem("ItemUnion", "U", 0),
              HirImpl("impl_Holder", 0, None, {"get", "map"}),
              ImplItem("Holder_get", 0, 0), ImplItem("Holder_map", 1, 0),
              HirImpl("impl_Gen", 1, None, {"method"}),
              ImplItem("Gen_method", 0, 1),
              HirItem("ItemTrait", "Tr", 0),
              HirItem("TraitItemMethod", "Tr_required", 0),
              HirItem("TraitItemMethod", "Tr_default", 0),
              HirItem("TraitItemMethod", "Tr_shown", 0),
              HirItem("TraitItemMethod", "Tr_generic", 1),
              HirItem("TraitItemMethod", "Tr_by_value", 0),
              HirImpl("impl_Tr_Holder", 0, Some(<<"Tr", Holder>>), {"required", "shown"}),
              ImplItem("Holder_required", 0, 0), ImplItem("Holder_shown", 0, 0),
              HirImpl("impl_Show_Holder", 0, Some(<<"Show", Holder>>), {}),
              HirImpl("impl_Tr_str", 0, Some(<<"Tr", Str>>), {"required"}),
              ImplItem("str_required", 0, 0),
              HirImpl("impl_Tr_Gen", 1, Some(<<"Tr", Gen(Param0)>>), {"required"}),
              ImplItem("Gen_required", 0, 1)>>,
            [d \in {"main", "lt_fn", "gen_fn", "S2", "K", "Guard", "Drop", "Guard_drop",
                    "Holder", "Borrowed", "Gen", "E", "U", "Holder_get", "Holder_map",
                    "Gen_method", "Tr", "Tr_required", "Tr_default", "Tr_shown",
                    "Tr_generic", "Tr_by_value", "Holder_required", "Holder_shown",
                    "str_required", "Gen_required", "Show", "Show_show"} |->
                CASE d = "main" -> LocalFn(<<Call("lt_fn", <<>>)>>)
                  [] d = "S2" -> LocalStatic(U32, <<>>)
                  [] d = "K" -> [LocalFn(<<>>) EXCEPT !.kind = "const"]
                  [] d = "Guard" -> LocalStruct(Guard)
                  [] d = "Drop" -> [Trait(<<>>) EXCEPT !.krate = "upstream"]
                  [] d = "Holder" -> StructWith(Holder, <<Guard>>)
                  [] d = "Borrowed" -> StructWith(Borrowed, <<Guard>>)
                  [] d = "Gen" -> StructWith(Gen(Param0), <<Param0>>)
                  [] d = "E" -> LocalStruct(Ty("E", <<>>))
                  [] d = "U" -> LocalStruct(Ty("U", <<>>))
                  [] d = "Tr" ->
                        TraitWith(<<>>, <<Provided("Tr_default", "default"),
                                          Provided("Tr_shown", "shown"),
                                          Provided("Tr_generic", "generic"),
                                          Provided("Tr_by_value", "by_value")>>)
                  [] d = "Tr_required" ->
                        TraitMethod(<<>>, <<<<"Holder", "Holder_required">>,
                                            <<"str", "str_required">>,
                                            <<"Gen", "Gen_required">>>>)
                  [] d = "Tr_default" ->
                        TraitMethod(<<Call("Tr_required", <<Param0>>)>>, <<>>)
                  [] d = "Tr_shown" ->
                        TraitMethod(<<>>, <<<<"Holder", "Holder_shown">>>>)
                  [] d = "Tr_generic" -> TraitMethodWhere(<<>>, <<>>, 1, {})
                  [] d = "Show" ->
                        [TraitWith(<<>>, <<Provided("Show_show", "show")>>)
                            EXCEPT !.krate = "upstream"]
                  [] d = "Show_show" ->
                        [TraitMethod(<<>>, <<>>) EXCEPT !.krate = "upstream"]
                  [] d = "Tr_by_value" ->
                        TraitMethodWhere(<<>>, <<>>, 0, {"Self: Sized"})
                  [] OTHER -> LocalFn(<<>>)])

\* main drops a value whose fields nest structs with destructors
ProgChain ==
    Program(<<HirItem("ItemFn", "main", 0), HirItem("ItemStruct", "Guard", 0),
              ImplItem("Guard_drop", 0, 0)>>
            \o [n \in 1..Len(LinkName) |-> HirItem("ItemStruct", LinkName[n], 0)],
            [d \in {"main", "Guard", "Guard_drop"}
                   \cup {LinkName[n] : n \in 1..Len(LinkName)} |->
                CASE d = "main" -> LocalFn(<<Drop(Link(Len(LinkName)))>>)
                  [] d = "Guard" -> LocalStruct(Guard)
                  [] d = "Guard_drop" -> LocalFn(<<>>)
                  [] OTHER -> StructWith(Ty(d, <<>>),
                                  <<IF d = LinkName[1] THEN Guard
                                    ELSE Link((CHOOSE n \in 2..Len(LinkName) :
                                                  d = LinkName[n]) - 1)>>)])

\* uses of every kind: virtual calls, drops of arrays, heap allocations,
\* closure values, function values and constants
ProgUses ==
    Program(<<HirItem("ItemFn", "main", 0), HirItem("ItemFn", "call_fn", 1),
              HirItem("ItemFn", "print_val", 1), HirItem("ItemFn", "g", 1),
              HirItem("ItemFn", "id", 1), HirItem("ItemFn", "k_helper", 1),
              HirItem("ItemFn", "k2_helper", 1),
              HirItem("ItemConst", "K", 0), HirItem("ItemConst", "K2", 0),
              HirItem("ItemConst", "GK", 1),
              HirItem("ItemTrait", "Obj", 0), HirItem("TraitItemMethod", "Obj_m", 0),
              HirItem("ItemStruct", "Guard", 0), ImplItem("Guard_drop", 0, 0)>>,
            [d \in {"main", "call_fn", "print_val", "g", "id", "k_helper", "k2_helper",
                    "K", "K2", "GK", "Obj", "Obj_m", "Guard", "Guard_drop",
                    "main_closure", "g_closure"} |->
                CASE d = "main" ->
                        LocalFn(<<Call("Obj_m", <<Dynamic("Obj")>>),
                                  Reify("Obj_m", <<Dynamic("Obj")>>),
                                  Drop(U32), Reify(drop_in_place_fn, <<U32>>),
                                  Drop(Array(U32)), Drop(Array(Guard)),
                                  Drop(Slice(Array(Guard))),
                                  Reify(drop_in_place_fn, <<Slice(Guard)>>),
                                  BoxNew,
                                  AggregateClosure("main_closure", <<>>),
                                  Call("call_fn", <<Ty("main_closure", <<>>)>>),
                                  Const("K", <<>>),
                                  Call("call_once", <<FnPtr, Unit>>),
                                  Call("g", <<U32>>),
                                  FnConst("print_val", <<U32>>),
                                  Call("call_fn", <<FnDef("print_val", <<U32>>)>>)>>)
                  [] d = "call_fn" -> LocalFn(<<Call("call_mut", <<Param0, Unit>>)>>)
                  [] d = "print_val" -> LocalFn(<<Const("K", <<>>)>>)
                  [] d = "g" -> LocalFn(<<Const("GK", <<Param0>>),
                                          AggregateClosure("g_closure", <<Param0>>),
                                          FnConst("id", <<Wrap(Param0)>>)>>)
                  [] d = "K" -> [LocalFn(<<Call("k_helper", <<U32>>), Const("K2", <<>>)>>)
                                    EXCEPT !.kind = "const"]
                  [] d = "K2" -> [LocalFn(<<Reify("k2_helper", <<U32>>)>>)
                                     EXCEPT !.kind = "const"]
                  [] d = "GK" -> [LocalFn(<<Call("id", <<Param0>>)>>)
                                     EXCEPT !.kind = "const"]
                  [] d = "Obj" -> Trait(<<Some("Obj_m")>>)
                  [] d = "Obj_m" -> TraitMethod(<<>>, <<>>)
                  [] d = "Guard" -> LocalStruct(Guard)
                  [] d = "main_closure" -> LocalClosure("Fn", <<Call("id", <<Guard>>)>>)
                  [] d = "g_closure" -> LocalClosure("Fn", <<Call("id", <<Unit>>)>>)
                  [] OTHER -> LocalFn(<<>>)])

\* items of other crates, foreign items and intrinsics
ProgExtern(reified) ==
    Program(<<HirItem("ItemFn", "main", 0), HirItem("ItemFn", "tail", 0)>>,
            [d \in {"main", "tail", "up_exported", "up_generic", "ffi", "transmute"} |->
                CASE d = "main" ->
                        LocalFn(<<Call("up_exported", <<>>), Call("up_generic", <<U32>>),
                                  Call("ffi", <<>>), Call("transmute", <<U32>>)>>
                                \o (IF reified THEN <<Reify("transmute", <<U32>>)>> ELSE <<>>)
                                \o <<Call("tail", <<>>)>>)
                  [] d = "tail" -> LocalFn(<<>>)
                  [] d = "up_exported" -> UpstreamFn(TRUE, TRUE, <<Call("tail", <<>>)>>)
                  [] d = "up_generic" -> UpstreamFn(FALSE, TRUE, <<Call("up_exported", <<>>)>>)
                  [] d = "ffi" -> ForeignFn
                  [] OTHER -> Intrinsic])

\* main calls x and then tail; the bits of k say where x is defined and what
\* the crate store knows of it: upstream, foreign, exported, MIR available
OracleCase(k) ==
    [krate |-> IF k % 2 = 1 THEN "upstream" ELSE "local",
     foreign |-> (k \div 2) % 2 = 1,
     exported |-> (k \div 4) % 2 = 1,
     mir_available |-> (k \div 8) % 2 = 1]

ProgOracle(k) ==
    Program(<<HirItem("ItemFn", "main", 0), HirItem("ItemFn", "tail", 0)>>
            \o (IF OracleCase(k).krate = "local" /\ ~OracleCase(k).foreign
                THEN <<HirItem("ItemFn", "x", 0)>> ELSE <<>>),
            [d \in {"main", "tail", "x"} |->
                CASE d = "main" -> LocalFn(<<Call("x", <<>>), Call("tail", <<>>)>>)
                  [] d = "tail" -> LocalFn(<<>>)
                  [] OTHER -> [LocalFn(<<>>) EXCEPT
                                  !.krate = OracleCase(k).krate,
                                  !.foreign = OracleCase(k).foreign,
                                  !.exported = OracleCase(k).exported,
                                  !.mir_available = OracleCase(k).mir_available]])

\* the deepest nesting of the crate whose items are met in different orders
Deepest == MaxRecursionLimit + 1

\* one item graph in four traversal orders: f<Wrap<T>> reaches f<T> through
\* the impl of Peel for Wrap<T>, and f<u32> ends the chain.  The instances of
\* f are referred to from main deepest first (k = 0) or shallowest first
\* (k = 1), or from the roots hi and lo, hi before lo (k = 2) or lo before
\* hi (k = 3)
ProgOrder(k) ==
    Program(<<HirItem("ItemFn", "main", 0)>>
            \o (CASE k = 2 -> <<HirItem("ItemFn", "hi", 0), HirItem("ItemFn", "lo", 0)>>
                  [] k = 3 -> <<HirItem("ItemFn", "lo", 0), HirItem("ItemFn", "hi", 0)>>
                  [] OTHER -> <<>>)
            \o <<HirItem("ItemFn", "f", 1), HirItem("ItemTrait", "Peel", 0),
                 HirItem("TraitItemMethod", "Peel_step", 0),
                 ImplItem("Wrap_step", 0, 1), ImplItem("u32_step", 0, 0)>>,
            [d \in {"main", "hi", "lo", "f", "Peel", "Peel_step", "Wrap_step",
                    "u32_step"} |->
                CASE d = "main" ->
                        LocalFn(CASE k = 0 -> [i \in 1..(Deepest + 1) |->
                                                  Call("f", <<WrapN(Deepest + 1 - i, U32)>>)]
                                  [] k = 1 -> [i \in 1..(Deepest + 1) |->
                                                  Call("f", <<WrapN(i - 1, U32)>>)]
                                  [] OTHER -> <<>>)
                  [] d = "hi" -> LocalFn(<<Call("f", <<WrapN(Deepest, U32)>>)>>)
                  [] d = "lo" -> LocalFn([i \in 1..Deepest |->
                                             Call("f", <<WrapN(i - 1, U32)>>)])
                  [] d = "f" -> LocalFn(<<Call("Peel_step", <<Param0>>)>>)
                  [] d = "Peel" -> Trait(<<>>)
                  [] d = "Peel_step" ->
                        TraitMethod(<<>>, <<<<"Wrap", "Wrap_step">>, <<"u32", "u32_step">>>>)
                  [] d = "Wrap_step" -> LocalFn(<<Call("f", <<Param0>>)>>)
                  [] OTHER -> LocalFn(<<>>)])

\* the crates the collector is run on, by name; k is the crate's parameter
Crate(n, k) == [name |-> n, k |-> k]

Crates ==
    {Crate(n, 0) : n \in {"grow", "cycle", "pair", "drop", "closure", "vtable", "roots",
                           "chain", "uses"}}
    \cup {Crate("siblings", k) : k \in 1..MaxSiblings}
    \cup {Crate("extern", k) : k \in 0..1}
    \cup {Crate("oracle", k) : k \in 0..15}
    \cup {Crate("order", k) : k \in 0..3}

\* the type context of a crate
TyCtxt(crate) ==
    CASE crate.name = "grow" -> ProgGrow
      [] crate.name = "cycle" -> ProgCycle
      [] crate.name = "pair" -> ProgPair
      [] crate.name = "drop" -> ProgDrop
      [] crate.name = "closure" -> ProgClosure
      [] crate.name = "vtable" -> ProgVtable
      [] crate.name = "roots" -> ProgRoots
      [] crate.name = "chain" -> ProgChain
      [] crate.name = "uses" -> ProgUses
      [] crate.name = "oracle" -> ProgOracle(crate.k)
      [] crate.name = "order" -> ProgOrder(crate.k)
      [] crate.name = "siblings" -> ProgSiblings(crate.k)
      [] OTHER -> ProgExtern(crate.k = 1)

(***************************************************************************)
(* Instances and translation items.                                        *)
(***************************************************************************)
InstanceDef(k, d, t) == [kind |-> k, def_id |-> d, ty |-> t]
Instance(d, ss) == [def |-> d, substs |-> ss]

\* Instance::mono
Instance_mono(def_id) == Instance(InstanceDef("Item", def_id, None), <<>>)

TransItem_Fn(instance) == [tag |-> "Fn", instance |-> instance]
TransItem_Static(node_id) == [tag |-> "Static", node_id |-> node_id]

create_fn_trans_item(instance) == TransItem_Fn(instance)

\* needs_fn_once_adapter_shim: a Fn or FnMut closure called as FnOnce
needs_fn_once_adapter_shim(actual_closure_kind, trait_closure_kind) ==
    actual_closure_kind \in {"Fn", "FnMut"} /\ trait_closure_kind = "FnOnce"

\* fn_once_adapter_instance: the shim's substitution is (closure type, arguments)
fn_once_adapter_instance(closure_did, substs) ==
    Instance(InstanceDef("ClosureOnceShim", "call_once", None),
             <<Ty(closure_did, substs), Ty("()", <<>>)>>)

\* monomorphize::resolve_closure
resolve_closure(tcx, def_id, substs, requested_kind) ==
    IF needs_fn_once_adapter_shim(tcx.defs[def_id].closure_kind, requested_kind)
    THEN fn_once_adapter_instance(def_id, substs)
    ELSE Instance(InstanceDef("Item", def_id, None), substs)

\* monomorphize::resolve: the instance a (definition, substitution) pair denotes
resolve(tcx, def_id, substs) ==
    IF def_id = drop_in_place_fn
    THEN Instance(InstanceDef("DropGlue", def_id,
                              IF needs_drop(substs[1]) THEN Some(substs[1]) ELSE None),
                  substs)
    ELSE IF tcx.defs[def_id].kind \in {"trait_method", "fn_trait_method"}
            /\ substs[1].con = "Dynamic"
    THEN Instance(InstanceDef("Virtual", def_id, None), substs)
    ELSE IF tcx.defs[def_id].kind = "fn_trait_method" /\ substs[1].con \in {"fn()", "FnDef"}
    THEN Instance(InstanceDef("FnPtrShim", def_id, Some(substs[1])), substs)
    ELSE IF tcx.defs[def_id].kind = "fn_trait_method"
    THEN resolve_closure(tcx, substs[1].con, substs[1].args,
                         IF def_id = "call_once" THEN "FnOnce" ELSE "FnMut")
    ELSE IF tcx.defs[def_id].kind = "intrinsic"
    THEN Instance(InstanceDef("Intrinsic", def_id, None), substs)
    ELSE IF tcx.defs[def_id].kind = "trait_method"
    THEN LET impls == tcx.defs[def_id].impls
             hit == {i \in 1..Len(impls) : impls[i][1] = substs[1].con}
         IN  IF hit = {}
             THEN Instance(InstanceDef("Item", def_id, None), substs)
             ELSE Instance(InstanceDef("Item", impls[CHOOSE i \in hit : TRUE][2], None),
                           substs[1].args)
    ELSE Instance(InstanceDef("Item", def_id, None), substs)

\* monomorphize::resolve_drop_in_place
resolve_drop_in_place(tcx, ty) == resolve(tcx, drop_in_place_fn, <<ty>>)

\* the MIR of a drop shim: run the type's destructor, then drop its fields
DropShimBody(ty) ==
    CASE ty.con = "Guard" -> <<Call("Guard_drop", <<>>)>>
      [] ty.con = "Wrap" -> <<Drop(ty.args[1])>>
      [] ty.con \in {"Holder", "Borrowed", LinkName[1]} -> <<Drop(Guard)>>
      [] \E n \in 2..Len(LinkName) : ty.con = LinkName[n] ->
            <<Drop(Link((CHOOSE n \in 2..Len(LinkName) : ty.con = LinkName[n]) - 1))>>
      [] OTHER -> <<>>

\* tcx.instance_mir
instance_mir(tcx, def) ==
    CASE def.kind = "Item" -> tcx.defs[def.def_id].body
      [] def.kind = "DropGlue" /\ def.ty # None -> DropShimBody(def.ty[1])
      [] def.kind = "ClosureOnceShim" -> <<Call("call_mut", <<Param0, Param1>>)>>
      [] def.kind = "FnPtrShim" /\ def.ty[1].con = "FnDef" ->
            <<Call(def.ty[1].args[1].con, def.ty[1].args[1].args)>>
      [] OTHER -> <<>>

\* TransItem::instantiation_mode
instantiation_mode(tcx, trans_item) ==
    IF trans_item.tag = "Static" THEN "GloballyShared"
    ELSE IF trans_item.instance.def.kind # "Item" THEN "LocalCopy"
    ELSE IF tcx.defs[trans_item.instance.def.def_id].inline THEN "LocalCopy"
    ELSE "GloballyShared"

\* as should_trans_locally, but an upstream item without MIR is taken to be
\* linked to
should_trans_locally_assume_linked(tcx, instance) ==
    IF instance.def.kind # "Item" THEN "true"
    ELSE LET d == tcx.defs[instance.def.def_id]
         IN IF d.krate = "local"
            THEN (IF d.foreign THEN "false" ELSE "true")
            ELSE IF d.exported \/ d.foreign THEN "false"
            ELSE IF ~d.mir_available THEN "false"
            ELSE "true"

\* as should_trans_locally, but the availability of the MIR is not looked at
should_trans_locally_unchecked(tcx, instance) ==
    IF instance.def.kind # "Item" THEN "true"
    ELSE LET d == tcx.defs[instance.def.def_id]
         IN IF d.krate = "local"
            THEN (IF d.foreign THEN "false" ELSE "true")
            ELSE IF d.exported \/ d.foreign THEN "false"
            ELSE "true"

\* as should_trans_locally, but an upstream item is translated locally
\* whenever its MIR is available
should_trans_locally_mir_first(tcx, instance) ==
    IF instance.def.kind # "Item" THEN "true"
    ELSE LET d == tcx.defs[instance.def.def_id]
         IN IF d.krate = "local"
            THEN (IF d.foreign THEN "false" ELSE "true")
            ELSE IF d.mir_available THEN "true"
            ELSE IF d.exported \/ d.foreign THEN "false"
            ELSE "bug"

(***************************************************************************)
(* The linkage oracle.  "bug" is the bug!() of an item that must be        *)
(* translated locally and has no MIR.                                      *)
(***************************************************************************)
should_trans_locally(tcx, instance) ==
    IF instance.def.kind # "Item" THEN "true"
    ELSE LET d == tcx.defs[instance.def.def_id]
         IN IF d.krate = "local"
            THEN (IF d.foreign THEN "false" ELSE "true")
            ELSE IF d.exported \/ d.foreign THEN "false"
            ELSE IF ~d.mir_available THEN "bug"
            ELSE "true"

(***************************************************************************)
(* Neighbor discovery.  Every visit yields what it pushes onto the output  *)
(* vector, in order.  A bug!() is the marker ICE at the place where it is  *)
(* raised: it ends the run, so what follows the marker was never pushed.   *)
(***************************************************************************)
ICE == [tag |-> "bug!"]
Bugged(output) == \E i \in 1..Len(output) : output[i].tag = "bug!"

(***************************************************************************)
(* Unsizing: the pair of types that determines the vtable of a coercion.   *)
(***************************************************************************)
\* is_trait: a trait object type
is_trait(t) == t.con = "Dynamic"

\* a structured type: Box or a struct of the registry
IsAdt(tcx, t) ==
    \/ t.con = "Box"
    \/ t.con \in DOMAIN tcx.defs /\ tcx.defs[t.con].kind = "struct"

\* the types of the fields of a struct type, at its substitution
FieldTypes(tcx, t) == apply_param_substs_list(t.args, tcx.defs[t.con].fields)

\* scx.type_is_sized
RECURSIVE type_is_sized(_, _)
type_is_sized(tcx, t) ==
    /\ t.con \notin {"Dynamic", "Slice", "str"}
    /\ (IsAdt(tcx, t) /\ t.con # "Box" /\ FieldTypes(tcx, t) # <<>>) =>
          type_is_sized(tcx, FieldTypes(tcx, t)[Len(FieldTypes(tcx, t))])

\* tcx.struct_lockstep_tails: descend into the last fields of two struct
\* types for as long as they are of the same definition
RECURSIVE struct_lockstep_tails(_, _, _)
struct_lockstep_tails(tcx, a, b) ==
    IF /\ IsAdt(tcx, a) /\ IsAdt(tcx, b) /\ a.con = b.con /\ a.con # "Box"
       /\ FieldTypes(tcx, a) # <<>>
    THEN struct_lockstep_tails(tcx, FieldTypes(tcx, a)[Len(FieldTypes(tcx, a))],
                                    FieldTypes(tcx, b)[Len(FieldTypes(tcx, b))])
    ELSE <<a, b>>

\* the closure ptr_vtable of find_vtable_types_for_unsizing
ptr_vtable(tcx, inner_source, inner_target) ==
    IF ~type_is_sized(tcx, inner_source)
    THEN <<inner_source, inner_target>>
    ELSE struct_lockstep_tails(tcx, inner_source, inner_target)

\* monomorphize::custom_coerce_unsize_info: Some(index from zero) of the
\* field that is coerced, or None when the struct has no such field (a bug!)
custom_coerce_unsize_info(tcx, source_ty, target_ty) ==
    LET source_fields == FieldTypes(tcx, source_ty)
        target_fields == FieldTypes(tcx, target_ty)
        differ == {i \in 1..Len(source_fields) :
                      i <= Len(target_fields) /\ source_fields[i] # target_fields[i]}
    IN  IF Cardinality(differ) = 1 THEN Some((CHOOSE i \in differ : TRUE) - 1) ELSE None

RECURSIVE find_vtable_types_for_unsizing(_, _, _)

\* as find_vtable_types_for_unsizing, but a raw pointer may be coerced to a
\* reference as well
find_vtable_types_for_unsizing_any_pointer(tcx, source_ty, target_ty) ==
    IF source_ty.con \in {"&", "*"} /\ target_ty.con \in {"&", "*"}
    THEN ptr_vtable(tcx, source_ty.args[1], target_ty.args[1])
    ELSE find_vtable_types_for_unsizing(tcx, source_ty, target_ty)

\* the pair (source, target) of the vtable, or None for its bug!() and its
\* failed assertions
find_vtable_types_for_unsizing(tcx, source_ty, target_ty) ==
    CASE \/ source_ty.con = "&" /\ target_ty.con \in {"&", "*"}
         \/ source_ty.con = "*" /\ target_ty.con = "*" ->
            ptr_vtable(tcx, source_ty.args[1], target_ty.args[1])
      [] source_ty.con = "Box" /\ target_ty.con = "Box" ->
            ptr_vtable(tcx, source_ty.args[1], target_ty.args[1])
      [] IsAdt(tcx, source_ty) /\ IsAdt(tcx, target_ty) ->
            IF source_ty.con # target_ty.con \/ source_ty.con = "Box" THEN None
            ELSE LET coerce_index == custom_coerce_unsize_info(tcx, source_ty, target_ty)
                 IN  IF coerce_index = None THEN None
                     ELSE find_vtable_types_for_unsizing(tcx,
                              FieldTypes(tcx, source_ty)[coerce_index[1] + 1],
                              FieldTypes(tcx, target_ty)[coerce_index[1] + 1])
      [] OTHER -> None

RECURSIVE visit_instance_use(_, _, _)

\* as visit_instance_use, but the linkage oracle is not consulted
visit_instance_use_unchecked(tcx, instance, is_direct_call) ==
    LET def == instance.def
    IN  CASE def.kind = "Intrinsic" ->
                IF ~is_direct_call THEN <<ICE>> ELSE <<>>
          [] def.kind = "Virtual" \/ (def.kind = "DropGlue" /\ def.ty = None) ->
                IF ~is_direct_call THEN <<create_fn_trans_item(instance)>> ELSE <<>>
          [] def.kind = "DropGlue" /\ def.ty # None ->
                (IF def.ty[1].con \in {"Array", "Slice"} /\ is_direct_call
                 THEN visit_instance_use(tcx,
                          resolve_drop_in_place(tcx, def.ty[1].args[1]), FALSE)
                 ELSE <<>>)
                \o <<create_fn_trans_item(instance)>>
          [] OTHER -> <<create_fn_trans_item(instance)>>

\* as visit_instance_use, but a reified intrinsic is queued like any item
visit_instance_use_reified_intrinsic(tcx, instance, is_direct_call) ==
    LET local == should_trans_locally(tcx, instance)
        def == instance.def
    IN  IF local = "bug" THEN <<ICE>>
        ELSE IF local = "false" THEN <<>>
        ELSE CASE def.kind = "Intrinsic" ->
                    IF ~is_direct_call THEN <<create_fn_trans_item(instance)>> ELSE <<>>
               [] def.kind = "Virtual" \/ (def.kind = "DropGlue" /\ def.ty = None) ->
                    IF ~is_direct_call THEN <<create_fn_trans_item(instance)>> ELSE <<>>
               [] def.kind = "DropGlue" /\ def.ty # None ->
                    (IF def.ty[1].con \in {"Array", "Slice"} /\ is_direct_call
                     THEN visit_instance_use(tcx,
                              resolve_drop_in_place(tcx, def.ty[1].args[1]), FALSE)
                     ELSE <<>>)
                    \o <<create_fn_trans_item(instance)>>
               [] OTHER -> <<create_fn_trans_item(instance)>>

\* as visit_instance_use, but a shim is queued for direct uses as well
visit_instance_use_always_shim(tcx, instance, is_direct_call) ==
    LET local == should_trans_locally(tcx, instance)
        def == instance.def
    IN  IF local = "bug" THEN <<ICE>>
        ELSE IF local = "false" THEN <<>>
        ELSE CASE def.kind = "Intrinsic" ->
                    IF ~is_direct_call THEN <<ICE>> ELSE <<>>
               [] def.kind = "Virtual" \/ (def.kind = "DropGlue" /\ def.ty = None) ->
                    <<create_fn_trans_item(instance)>>
               [] def.kind = "DropGlue" /\ def.ty # None ->
                    (IF def.ty[1].con \in {"Array", "Slice"} /\ is_direct_call
                     THEN visit_instance_use(tcx,
                              resolve_drop_in_place(tcx, def.ty[1].args[1]), FALSE)
                     ELSE <<>>)
                    \o <<create_fn_trans_item(instance)>>
               [] OTHER -> <<create_fn_trans_item(instance)>>

\* as visit_instance_use, but the element of an array is dropped as a direct use
visit_instance_use_element_direct(tcx, instance, is_direct_call) ==
    LET local == should_trans_locally(tcx, instance)
        def == instance.def
    IN  IF local = "bug" THEN <<ICE>>
        ELSE IF local = "false" THEN <<>>
        ELSE CASE def.kind = "Intrinsic" ->
                    IF ~is_direct_call THEN <<ICE>> ELSE <<>>
               [] def.kind = "Virtual" \/ (def.kind = "DropGlue" /\ def.ty = None) ->
                    IF ~is_direct_call THEN <<create_fn_trans_item(instance)>> ELSE <<>>
               [] def.kind = "DropGlue" /\ def.ty # None ->
                    (IF def.ty[1].con \in {"Array", "Slice"} /\ is_direct_call
                     THEN visit_instance_use(tcx,
                              resolve_drop_in_place(tcx, def.ty[1].args[1]), TRUE)
                     ELSE <<>>)
                    \o <<create_fn_trans_item(instance)>>
               [] OTHER -> <<create_fn_trans_item(instance)>>

visit_instance_use(tcx, instance, is_direct_call) ==
    LET local == should_trans_locally(tcx, instance)
        def == instance.def
    IN  IF local = "bug" THEN <<ICE>>
        ELSE IF local = "false" THEN <<>>
        ELSE CASE def.kind = "Intrinsic" ->
                    IF ~is_direct_call THEN <<ICE>> ELSE <<>>
               [] def.kind = "Virtual" \/ (def.kind = "DropGlue" /\ def.ty = None) ->
                    IF ~is_direct_call THEN <<create_fn_trans_item(instance)>> ELSE <<>>
               [] def.kind = "DropGlue" /\ def.ty # None ->
                    (IF def.ty[1].con \in {"Array", "Slice"} /\ is_direct_call
                     THEN visit_instance_use(tcx,
                              resolve_drop_in_place(tcx, def.ty[1].args[1]), FALSE)
                     ELSE <<>>)
                    \o <<create_fn_trans_item(instance)>>
               [] OTHER -> <<create_fn_trans_item(instance)>>

visit_drop_use(tcx, ty, is_direct_call) ==
    visit_instance_use(tcx, resolve_drop_in_place(tcx, ty), is_direct_call)

\* the operand's type is always a TyFnDef here: calls through function
\* pointers name no definition and are not part of a body's construct list
visit_fn_use(tcx, def_id, substs, is_direct_call) ==
    visit_instance_use(tcx, resolve(tcx, def_id, substs), is_direct_call)

\* traits::get_vtable_methods: the methods of the principal trait and of its
\* supertraits, each with the substitution Self = impl_ty, None for a
\* method without a vtable entry
get_vtable_methods(tcx, trait_ty, impl_ty) ==
    tcx.defs[trait_ty.args[1].con].methods

\* as create_trans_items_for_vtable_methods, but the destructor is added the
\* way a direct drop adds it
create_trans_items_for_vtable_methods_direct_drop(tcx, trait_ty, impl_ty) ==
    IF needs_subst(trait_ty) \/ needs_subst(impl_ty) THEN <<ICE>>
    ELSE IF trait_ty.con # "Dynamic" THEN <<>>
    ELSE LET methods == SelectSeq(get_vtable_methods(tcx, trait_ty, impl_ty),
                                  LAMBDA method : method # None)
         IN  (IF trait_ty.args = <<>> THEN <<>>
              ELSE Bind([i \in 1..Len(methods) |-> resolve(tcx, methods[i][1], <<impl_ty>>)],
                        LAMBDA instances :
                            IF \E i \in 1..Len(instances) :
                                  should_trans_locally(tcx, instances[i]) = "bug"
                            THEN <<ICE>>
                            ELSE Bind(SelectSeq(instances,
                                         LAMBDA x : should_trans_locally(tcx, x) = "true"),
                                      LAMBDA local :
                                          [i \in 1..Len(local) |->
                                              create_fn_trans_item(local[i])])))
             \o visit_drop_use(tcx, impl_ty, TRUE)

\* the items pushed for the vtable of the pair (impl_ty, trait_ty)
create_trans_items_for_vtable_methods(tcx, trait_ty, impl_ty) ==
    IF needs_subst(trait_ty) \/ needs_subst(impl_ty) THEN <<ICE>>
    ELSE IF trait_ty.con # "Dynamic" THEN <<>>
    ELSE LET methods == SelectSeq(get_vtable_methods(tcx, trait_ty, impl_ty),
                                  LAMBDA method : method # None)
         IN  (IF trait_ty.args = <<>> THEN <<>>
              ELSE Bind([i \in 1..Len(methods) |-> resolve(tcx, methods[i][1], <<impl_ty>>)],
                        LAMBDA instances :
                            IF \E i \in 1..Len(instances) :
                                  should_trans_locally(tcx, instances[i]) = "bug"
                            THEN <<ICE>>
                            ELSE Bind(SelectSeq(instances,
                                         LAMBDA x : should_trans_locally(tcx, x) = "true"),
                                      LAMBDA local :
                                          [i \in 1..Len(local) |->
                                              create_fn_trans_item(local[i])])))
             \o visit_drop_use(tcx, impl_ty, FALSE)

\* the Unsize arm of visit_rvalue
visit_unsize(tcx, param_substs, source, target) ==
    LET target_ty == apply_param_substs(param_substs, target)
        source_ty == apply_param_substs(param_substs, source)
    IN  Bind(find_vtable_types_for_unsizing(tcx, source_ty, target_ty),
             LAMBDA pair :
                 IF pair = None THEN <<ICE>>
                 ELSE IF is_trait(pair[2]) /\ ~is_trait(pair[1])
                 THEN create_trans_items_for_vtable_methods(tcx, pair[2], pair[1])
                 ELSE <<>>)

\* the Box arm of visit_rvalue
visit_box(tcx) ==
    LET instance == Instance_mono(exchange_malloc_fn)
    IN  IF should_trans_locally(tcx, instance) = "bug" THEN <<ICE>>
        ELSE IF should_trans_locally(tcx, instance) = "true"
        THEN <<create_fn_trans_item(instance)>>
        ELSE <<>>

RECURSIVE collect_neighbours(_, _)

\* as visit_constant, but the constant is queued as an item of its own
visit_constant_as_item(tcx, param_substs, c) ==
    IF c.op = "FnConstant" THEN <<>>
    ELSE <<create_fn_trans_item(resolve(tcx, c.def_id,
               apply_param_substs_list(param_substs, c.substs)))>>

\* as visit_constant, but a constant of a function definition's type is taken
\* as an indirect use of the function
visit_constant_fn_operand(tcx, param_substs, c) ==
    IF c.op = "FnConstant"
    THEN visit_fn_use(tcx, c.def_id, apply_param_substs_list(param_substs, c.substs), FALSE)
    ELSE collect_neighbours(tcx, resolve(tcx, c.def_id,
             apply_param_substs_list(param_substs, c.substs)))

\* visit_constant: nothing for a constant of a function definition's type,
\* the neighbors of the referenced item for a literal Item
visit_constant(tcx, param_substs, c) ==
    IF c.op = "FnConstant" THEN <<>>
    ELSE collect_neighbours(tcx, resolve(tcx, c.def_id,
             apply_param_substs_list(param_substs, c.substs)))

RECURSIVE visit_construct(_, _, _)

\* as visit_construct, but building a closure value queues the closure
visit_construct_closure_built(tcx, param_substs, c) ==
    CASE c.op = "Call" ->
            visit_fn_use(tcx, c.def_id, apply_param_substs_list(param_substs, c.substs), TRUE)
      [] c.op = "Reify" ->
            visit_fn_use(tcx, c.def_id, apply_param_substs_list(param_substs, c.substs), FALSE)
      [] c.op = "Drop" ->
            visit_drop_use(tcx, apply_param_substs(param_substs, c.substs[1]), TRUE)
      [] c.op = "Unsize" ->
            visit_unsize(tcx, param_substs, c.substs[1], c.substs[2])
      [] c.op = "ClosureFnPointer" ->
            <<create_fn_trans_item(resolve_closure(tcx, c.def_id, c.substs, "FnOnce"))>>
      [] c.op = "Box" -> visit_box(tcx)
      [] c.op \in {"FnConstant", "Constant"} -> visit_constant(tcx, param_substs, c)
      [] c.op = "Aggregate" ->
            <<create_fn_trans_item(resolve_closure(tcx, c.def_id,
                  apply_param_substs_list(param_substs, c.substs),
                  tcx.defs[c.def_id].closure_kind))>>
      [] OTHER -> <<>>

\* MirNeighborCollector: one construct of the body
visit_construct(tcx, param_substs, c) ==
    CASE c.op = "Call" ->
            visit_fn_use(tcx, c.def_id, apply_param_substs_list(param_substs, c.substs), TRUE)
      [] c.op = "Reify" ->
            visit_fn_use(tcx, c.def_id, apply_param_substs_list(param_substs, c.substs), FALSE)
      [] c.op = "Drop" ->
            visit_drop_use(tcx, apply_param_substs(param_substs, c.substs[1]), TRUE)
      [] c.op = "Unsize" ->
            visit_unsize(tcx, param_substs, c.substs[1], c.substs[2])
      [] c.op = "ClosureFnPointer" ->
            <<create_fn_trans_item(resolve_closure(tcx, c.def_id, c.substs, "FnOnce"))>>
      [] c.op = "Box" -> visit_box(tcx)
      [] c.op \in {"FnConstant", "Constant"} -> visit_constant(tcx, param_substs, c)
      [] OTHER -> <<>>

\* visit_mir on the constructs body[i..Len(body)]
RECURSIVE visit_mir(_, _, _, _)
visit_mir(tcx, param_substs, body, i) ==
    IF i > Len(body) THEN <<>>
    ELSE visit_construct(tcx, param_substs, body[i])
         \o visit_mir(tcx, param_substs, body, i + 1)

collect_neighbours(tcx, instance) ==
    Bind(instance, LAMBDA i :
        Bind(instance_mir(tcx, i.def), LAMBDA mir : visit_mir(tcx, i.substs, mir, 1)))

(***************************************************************************)
(* Root collection: the RootCollector's walk over the HIR item-likes.      *)
(***************************************************************************)
\* traits::normalize_and_test_predicates on the predicates of the instance's
\* definition, at the instance's substitution
normalize_and_test_predicates(tcx, instance) ==
    "Self: Sized" \in tcx.defs[instance.def.def_id].predicates =>
        type_is_sized(tcx, instance.substs[1])

\* as create_trans_items_for_default_impls, but the methods the impl
\* overrides are not left out
create_trans_items_for_default_impls_overridden(tcx, item) ==
    IF item.node # "ItemImpl" THEN <<ICE>>
    ELSE IF is_type_parameterized(item) THEN <<>>
    ELSE IF item.trait_ref = None THEN <<>>
    ELSE LET trait_ref == item.trait_ref[1]
             callee_substs == <<trait_ref[2]>>
             overridden_methods == item.impl_item_refs
             methods == SelectSeq(tcx.defs[trait_ref[1]].provided,
                            LAMBDA method : /\ TRUE
                                            /\ tcx.defs[method.def_id].types = 0)
             instances == SelectSeq([i \in 1..Len(methods) |->
                                        resolve(tcx, methods[i].def_id, callee_substs)],
                              LAMBDA x : normalize_and_test_predicates(tcx, x))
             local == SelectSeq(instances,
                                LAMBDA x : should_trans_locally(tcx, x) = "true")
         IN  IF \E i \in 1..Len(instances) :
                    should_trans_locally(tcx, instances[i]) = "bug"
             THEN <<ICE>>
             ELSE [i \in 1..Len(local) |-> create_fn_trans_item(local[i])]

\* the provided trait methods an impl block inherits, as items
create_trans_items_for_default_impls(tcx, item) ==
    IF item.node # "ItemImpl" THEN <<ICE>>
    ELSE IF is_type_parameterized(item) THEN <<>>
    ELSE IF item.trait_ref = None THEN <<>>
    ELSE LET trait_ref == item.trait_ref[1]
             callee_substs == <<trait_ref[2]>>
             overridden_methods == item.impl_item_refs
             methods == SelectSeq(tcx.defs[trait_ref[1]].provided,
                            LAMBDA method : /\ method.name \notin overridden_methods
                                            /\ tcx.defs[method.def_id].types = 0)
             instances == SelectSeq([i \in 1..Len(methods) |->
                                        resolve(tcx, methods[i].def_id, callee_substs)],
                              LAMBDA x : normalize_and_test_predicates(tcx, x))
             local == SelectSeq(instances,
                                LAMBDA x : should_trans_locally(tcx, x) = "true")
         IN  IF \E i \in 1..Len(instances) :
                    should_trans_locally(tcx, instances[i]) = "bug"
             THEN <<ICE>>
             ELSE [i \in 1..Len(local) |-> create_fn_trans_item(local[i])]

\* as RootCollector_visit, but the collection mode is not looked at
RootCollector_visit_any_mode(tcx, m, item) ==
    CASE item.node = "ItemImpl" ->
            create_trans_items_for_default_impls(tcx, item)
      [] item.node \in {"ItemEnum", "ItemStruct", "ItemUnion"} ->
            IF ~is_parameterized(item)
            THEN visit_drop_use(tcx, tcx.defs[item.id].ty[1], TRUE)
            ELSE <<>>
      [] item.node = "ItemStatic" -> <<TransItem_Static(item.id)>>
      [] item.node = "ItemFn" ->
            IF ~is_type_parameterized(item)
            THEN <<TransItem_Fn(Instance_mono(item.id))>>
            ELSE <<>>
      [] item.node = "ImplItemMethod" ->
            IF ~is_type_parameterized(item) /\ item.impl_generics = 0
            THEN <<TransItem_Fn(Instance_mono(item.id))>>
            ELSE <<>>
      [] OTHER -> <<>>

\* as RootCollector_visit, but the generics of the enclosing impl block and
\* the kind of a trait item are not looked at
RootCollector_visit_methods_alike(tcx, m, item) ==
    CASE item.node = "ItemImpl" ->
            IF m = "Eager" THEN create_trans_items_for_default_impls(tcx, item) ELSE <<>>
      [] item.node \in {"ItemEnum", "ItemStruct", "ItemUnion"} ->
            IF ~is_parameterized(item) /\ m = "Eager"
            THEN visit_drop_use(tcx, tcx.defs[item.id].ty[1], TRUE)
            ELSE <<>>
      [] item.node = "ItemStatic" -> <<TransItem_Static(item.id)>>
      [] item.node = "ItemFn" ->
            IF ~is_type_parameterized(item)
            THEN <<TransItem_Fn(Instance_mono(item.id))>>
            ELSE <<>>
      [] item.node \in {"ImplItemMethod", "TraitItemMethod"} ->
            IF ~is_type_parameterized(item)
            THEN <<TransItem_Fn(Instance_mono(item.id))>>
            ELSE <<>>
      [] OTHER -> <<>>

\* what one item-like contributes to the roots: visit_item, visit_trait_item
\* and visit_impl_item
RootCollector_visit(tcx, m, item) ==
    CASE item.node = "ItemImpl" ->
            IF m = "Eager" THEN create_trans_items_for_default_impls(tcx, item) ELSE <<>>
      [] item.node \in {"ItemEnum", "ItemStruct", "ItemUnion"} ->
            IF ~is_parameterized(item) /\ m = "Eager"
            THEN visit_drop_use(tcx, tcx.defs[item.id].ty[1], TRUE)
            ELSE <<>>
      [] item.node = "ItemStatic" -> <<TransItem_Static(item.id)>>
      [] item.node = "ItemFn" ->
            IF ~is_type_parameterized(item)
            THEN <<TransItem_Fn(Instance_mono(item.id))>>
            ELSE <<>>
      [] item.node = "ImplItemMethod" ->
            IF ~is_type_parameterized(item) /\ item.impl_generics = 0
            THEN <<TransItem_Fn(Instance_mono(item.id))>>
            ELSE <<>>
      [] OTHER -> <<>>

\* the walk over the item-likes items[i..Len(items)]
RECURSIVE visit_all_item_likes(_, _, _, _)
visit_all_item_likes(tcx, m, items, i) ==
    IF i > Len(items) THEN <<>>
    ELSE RootCollector_visit(tcx, m, items[i])
         \o visit_all_item_likes(tcx, m, items, i + 1)

collect_roots(tcx, m) == visit_all_item_likes(tcx, m, tcx.hir, 1)

(***************************************************************************)
(* The recursion and type-length guards.                                   *)
(***************************************************************************)
Diag(k, item) == [kind |-> k, item |-> item]

\* DefIdMap get / insert
depth_of(depths, def_id) == IF def_id \in DOMAIN depths THEN depths[def_id] ELSE 0
insert(map, key, value) ==
    [k \in DOMAIN map \cup {key} |-> IF k = key THEN value ELSE map[k]]

\* as check_recursion_limit, but a depth equal to the limit is fatal already
check_recursion_limit_inclusive(sess, instance, depths) ==
    LET def_id == instance.def.def_id
        stored == depth_of(depths, def_id)
        recursion_depth == IF def_id = drop_in_place_fn THEN stored \div 4 ELSE stored
    IN  [fatal |-> recursion_depth >= sess.recursion_limit,
         recursion_depths |-> insert(depths, def_id, recursion_depth + 1),
         reset |-> <<def_id, recursion_depth>>]

\* [fatal, recursion_depths, reset]: reset is the pair the function returns
check_recursion_limit(sess, instance, depths) ==
    LET def_id == instance.def.def_id
        stored == depth_of(depths, def_id)
        recursion_depth == IF def_id = drop_in_place_fn THEN stored \div 4 ELSE stored
    IN  [fatal |-> recursion_depth > sess.recursion_limit,
         recursion_depths |-> insert(depths, def_id, recursion_depth + 1),
         reset |-> <<def_id, recursion_depth>>]

\* instance.substs.types().flat_map(|ty| ty.walk()).count()
type_length(instance) ==
    SumSeq([i \in 1..Len(instance.substs) |-> walk_count(instance.substs[i])])

\* as check_type_length_limit, but a length equal to the limit is too long
check_type_length_limit_inclusive(sess, instance) ==
    type_length(instance) >= sess.type_length_limit

\* whether the type-length diagnostic is emitted
check_type_length_limit(sess, instance) ==
    type_length(instance) > sess.type_length_limit

\* tcx.sess.abort_if_errors() with `errors` diagnostics emitted so far
\* as abort_if_errors, but the session goes on whatever was emitted
abort_if_errors_never(errors) == FALSE

\* Session::abort_if_errors: whether the session aborts
abort_if_errors(errors) == errors # <<>>

\* as FxHashSet_new, but the set is the one the previous run left behind
FxHashSet_kept == visited

\* FxHashSet(): the empty visited set a run starts with
FxHashSet_new == {}

(***************************************************************************)
(* The inlining map.                                                       *)
(***************************************************************************)
InliningMap_new == [index |-> <<>>, targets |-> <<>>]

\* as InliningMap::record_inlining_canditates, but the range recorded starts
\* at the beginning of the target vector
InliningMap_record_inlining_canditates_from_zero(map, source, targets) ==
    IF source \in DOMAIN map.index
    THEN [map |-> map, asserted |-> TRUE]
    ELSE [map |-> [index |-> insert(map.index, source,
                                    <<0, Len(map.targets) + Len(targets)>>),
                   targets |-> map.targets \o targets],
          asserted |-> FALSE]

\* InliningMap::record_inlining_canditates: [map, asserted], asserted when
\* the assertion that the source is not yet in the index fails
InliningMap_record_inlining_canditates(map, source, targets) ==
    IF source \in DOMAIN map.index
    THEN [map |-> map, asserted |-> TRUE]
    ELSE [map |-> [index |-> insert(map.index, source,
                                    <<Len(map.targets), Len(map.targets) + Len(targets)>>),
                   targets |-> map.targets \o targets],
          asserted |-> FALSE]

\* the free function record_inlining_canditates
record_inlining_canditates(tcx, caller, callees, map) ==
    LET inlining_candidates ==
            SelectSeq(callees, LAMBDA x : instantiation_mode(tcx, x) = "LocalCopy")
    IN  InliningMap_record_inlining_canditates(map, caller, inlining_candidates)

\* InliningMap::with_inlining_candidates: the candidates handed to f, in order
with_inlining_candidates(map, source) ==
    IF source \in DOMAIN map.index
    THEN SubSeq(map.targets, map.index[source][1] + 1, map.index[source][2])
    ELSE <<>>

(***************************************************************************)
(* collect_items_rec on a starting point that is not yet visited, up to    *)
(* its loop over the neighbors: what it leaves behind.                     *)
(*   diag       the diagnostics emitted                                    *)
(*   fatal      the run was aborted                                        *)
(*   recursion_depths, inlining_map   the maps afterwards                  *)
(*   neighbors, reset                 the frame's locals                   *)
(***************************************************************************)
Entered(d, f, rd, im, nb, rs) ==
    [diag |-> d, fatal |-> f, recursion_depths |-> rd, inlining_map |-> im,
     neighbors |-> nb, reset |-> rs]

\* line 354: record the inlining candidates of the neighbors found
collect_items_rec_record(tcx, starting_point, rd, im, found, rs, diag) ==
    Bind(found, LAMBDA neighbors :
        IF Bugged(neighbors)
        THEN Entered(diag \o <<Diag("bug", starting_point)>>, TRUE, rd, im, <<>>, rs)
        ELSE Bind(record_inlining_canditates(tcx, starting_point, neighbors, im),
                  LAMBDA rec :
                      IF rec.asserted
                      THEN Entered(diag \o <<Diag("assertion", starting_point)>>,
                                   TRUE, rd, im, <<>>, rs)
                      ELSE Entered(diag, FALSE, rd, rec.map, neighbors, rs)))

collect_items_rec_static(tcx, sess, starting_point, rd, im) ==
    LET instance == Instance_mono(starting_point.node_id)
        ty == tcx.defs[starting_point.node_id].ty[1]
    IN  IF should_trans_locally(tcx, instance) # "true"
        THEN Entered(<<Diag("assertion", starting_point)>>, TRUE, rd, im, <<>>, None)
        ELSE collect_items_rec_record(tcx, starting_point, rd, im,
                 visit_drop_use(tcx, ty, TRUE) \o collect_neighbours(tcx, instance),
                 None, <<>>)

\* as collect_items_rec_fn, but the body of a definition is scanned without
\* the item's own substitution: the neighbors keep the body's type parameters
collect_items_rec_fn_unsubstituted(tcx, sess, errors, starting_point, rd, im) ==
    LET instance == starting_point.instance
        limit == check_recursion_limit(sess, instance, rd)
        too_long == check_type_length_limit(sess, instance)
        diag == IF too_long THEN <<Diag("type_length_limit", starting_point)>> ELSE <<>>
    IN  IF limit.fatal
        THEN Entered(<<Diag("recursion_limit", starting_point)>>, TRUE, rd, im, <<>>, None)
        ELSE IF too_long /\ abort_if_errors(errors \o diag)
        THEN Entered(diag, TRUE, limit.recursion_depths, im, <<>>, Some(limit.reset))
        ELSE collect_items_rec_record(tcx, starting_point, limit.recursion_depths, im,
                 collect_neighbours(tcx, IF instance.def.kind = "Item"
                                         THEN Instance(instance.def, <<Param0, Param1>>)
                                         ELSE instance),
                 Some(limit.reset), diag)

collect_items_rec_fn(tcx, sess, errors, starting_point, rd, im) ==
    LET instance == starting_point.instance
        limit == check_recursion_limit(sess, instance, rd)
        too_long == check_type_length_limit(sess, instance)
        diag == IF too_long THEN <<Diag("type_length_limit", starting_point)>> ELSE <<>>
    IN  IF should_trans_locally(tcx, instance) # "true"
        THEN Entered(<<Diag("assertion", starting_point)>>, TRUE, rd, im, <<>>, None)
        ELSE IF limit.fatal
        THEN Entered(<<Diag("recursion_limit", starting_point)>>, TRUE, rd, im, <<>>, None)
        ELSE IF too_long /\ abort_if_errors(errors \o diag)
        THEN Entered(diag, TRUE, limit.recursion_depths, im, <<>>, Some(limit.reset))
        ELSE collect_items_rec_record(tcx, starting_point, limit.recursion_depths, im,
                 collect_neighbours(tcx, instance), Some(limit.reset), diag)

collect_items_rec_match(tcx, sess, errors, starting_point, rd, im) ==
    IF starting_point.tag = "Static"
    THEN collect_items_rec_static(tcx, sess, starting_point, rd, im)
    ELSE collect_items_rec_fn(tcx, sess, errors, starting_point, rd, im)

(***************************************************************************)
(* The state machine.                                                      *)
(***************************************************************************)
\* an active call of collect_items_rec: its locals, and the depth map it was
\* called with
Frame(sp, nb, rs, depths) ==
    [starting_point |-> sp, neighbors |-> nb, recursion_depth_reset |-> rs,
     called_with |-> depths]
Step(o, item) == [op |-> o, item |-> item]

Top == stack[Len(stack)]

\* scx.tcx()
tcx == TyCtxt(scx.crate)

\* a call of collect_items_rec is about to be made: by the loop over the
\* roots, or by the loop over the neighbors of the innermost active call
Calling ==
    /\ status = "running"
    /\ IF stack = <<>> THEN roots # <<>> ELSE Top.neighbors # <<>>

\* the argument of that call
starting_point == IF stack = <<>> THEN Head(roots) ELSE Head(Top.neighbors)

\* as Taken, but the loop over the neighbors does not move on
Taken_stuck == stack

\* the calling loop has taken its element
Taken ==
    IF stack = <<>> THEN <<>>
    ELSE [stack EXCEPT ![Len(stack)].neighbors = Tail(@)]

TakenRoots == IF stack = <<>> THEN Tail(roots) ELSE roots

Init ==
    /\ scx \in [crate : Crates,
                sess : [recursion_limit : 0..MaxRecursionLimit,
                        type_length_limit : 1..MaxTypeLengthLimit]]
    /\ mode \in {"Eager", "Lazy"}
    /\ status = "idle"
    /\ roots = <<>>
    /\ visited = {}
    /\ recursion_depths = <<>>
    /\ inlining_map = InliningMap_new
    /\ stack = <<>>
    /\ diagnostics = <<>>
    /\ returned = None
    /\ last = Step("none", None)
    /\ outcomes = <<>>

\* collect_crate_translation_items up to its loop over the roots
collect_crate_translation_items ==
    /\ status = "idle"
    /\ \E found \in {collect_roots(tcx, mode)} :
           /\ roots' = IF Bugged(found) THEN <<>> ELSE found
           /\ status' = IF Bugged(found) THEN "fatal" ELSE "running"
           /\ diagnostics' = IF Bugged(found) THEN <<Diag("bug", None)>> ELSE <<>>
    /\ visited' = FxHashSet_new
    /\ recursion_depths' = <<>>
    /\ inlining_map' = InliningMap_new
    /\ stack' = <<>>
    /\ returned' = None
    /\ last' = Step("roots", None)
    /\ UNCHANGED <<scx, mode, outcomes>>

\* as collect_items_rec_visited, but the recursion guard runs before the
\* visited set is consulted
collect_items_rec_visited_guard_first ==
    /\ Calling
    /\ starting_point \in visited
    /\ stack' = Taken
    /\ roots' = TakenRoots
    /\ last' = Step("visited", starting_point)
    /\ recursion_depths' =
          IF starting_point.tag = "Fn"
          THEN check_recursion_limit(scx.sess, starting_point.instance,
                                     recursion_depths).recursion_depths
          ELSE recursion_depths
    /\ UNCHANGED <<scx, mode, status, visited, inlining_map,
                   diagnostics, returned, outcomes>>

\* collect_items_rec called on an item that is in the visited set
collect_items_rec_visited ==
    /\ Calling
    /\ starting_point \in visited
    /\ stack' = Taken
    /\ roots' = TakenRoots
    /\ last' = Step("visited", starting_point)
    /\ UNCHANGED <<scx, mode, status, visited, recursion_depths, inlining_map,
                   diagnostics, returned, outcomes>>

\* as collect_items_rec_begin, but the neighbors are put into the visited set
\* as soon as they are found
collect_items_rec_begin_marks_neighbors ==
    /\ Calling
    /\ starting_point \notin visited
    /\ \E t \in {tcx} : \E e \in {collect_items_rec_match(t, scx.sess, diagnostics, starting_point,
                                          recursion_depths, inlining_map)} :
           /\ visited' = visited \cup {starting_point}
                            \cup {e.neighbors[i] : i \in 1..Len(e.neighbors)}
           /\ diagnostics' = diagnostics \o e.diag
           /\ status' = IF e.fatal THEN "fatal" ELSE "running"
           /\ recursion_depths' = e.recursion_depths
           /\ inlining_map' = e.inlining_map
           /\ stack' = IF e.fatal THEN Taken
                       ELSE Append(Taken, Frame(starting_point, e.neighbors, e.reset,
                                                  recursion_depths))
           /\ last' = Step(IF e.fatal THEN "fatal" ELSE "begin", starting_point)
    /\ roots' = TakenRoots
    /\ UNCHANGED <<scx, mode, returned, outcomes>>

\* as collect_items_rec_begin, but the visited set is not consulted
collect_items_rec_begin_unguarded ==
    /\ Calling
    /\ visited' = visited \cup {starting_point}
    /\ \E t \in {tcx} : \E e \in {collect_items_rec_match(t, scx.sess, diagnostics, starting_point,
                                          recursion_depths, inlining_map)} :
           /\ diagnostics' = diagnostics \o e.diag
           /\ status' = IF e.fatal THEN "fatal" ELSE "running"
           /\ recursion_depths' = e.recursion_depths
           /\ inlining_map' = e.inlining_map
           /\ stack' = IF e.fatal THEN Taken
                       ELSE Append(Taken, Frame(starting_point, e.neighbors, e.reset,
                                                  recursion_depths))
           /\ last' = Step(IF e.fatal THEN "fatal" ELSE "begin", starting_point)
    /\ roots' = TakenRoots
    /\ UNCHANGED <<scx, mode, returned, outcomes>>

\* collect_items_rec called on a new item, up to its loop over the neighbors
collect_items_rec_begin ==
    /\ Calling
    /\ starting_point \notin visited
    /\ visited' = visited \cup {starting_point}
    /\ \E t \in {tcx} : \E e \in {collect_items_rec_match(t, scx.sess, diagnostics, starting_point,
                                          recursion_depths, inlining_map)} :
           /\ diagnostics' = diagnostics \o e.diag
           /\ status' = IF e.fatal THEN "fatal" ELSE "running"
           /\ recursion_depths' = e.recursion_depths
           /\ inlining_map' = e.inlining_map
           /\ stack' = IF e.fatal THEN Taken
                       ELSE Append(Taken, Frame(starting_point, e.neighbors, e.reset,
                                                  recursion_depths))
           /\ last' = Step(IF e.fatal THEN "fatal" ELSE "begin", starting_point)
    /\ roots' = TakenRoots
    /\ UNCHANGED <<scx, mode, returned, outcomes>>

\* as collect_items_rec_end, but the depth is left as the expansion set it
collect_items_rec_end_no_reset ==
    /\ status = "running"
    /\ stack # <<>>
    /\ Top.neighbors = <<>>
    /\ stack' = SubSeq(stack, 1, Len(stack) - 1)
    /\ last' = Step("end", Top.starting_point)
    /\ UNCHANGED <<scx, mode, status, roots, visited, recursion_depths, inlining_map,
                   diagnostics, returned, outcomes>>

\* the loop over the neighbors is over: restore the depth and return
collect_items_rec_end ==
    /\ status = "running"
    /\ stack # <<>>
    /\ Top.neighbors = <<>>
    /\ recursion_depths' =
          IF Top.recursion_depth_reset # None
          THEN insert(recursion_depths, Top.recursion_depth_reset[1][1],
                      Top.recursion_depth_reset[1][2])
          ELSE recursion_depths
    /\ stack' = SubSeq(stack, 1, Len(stack) - 1)
    /\ last' = Step("end", Top.starting_point)
    /\ UNCHANGED <<scx, mode, status, roots, visited, inlining_map, diagnostics,
                   returned, outcomes>>

\* the loop over the roots is over: (visited, inlining_map) is returned
collect_crate_translation_items_return ==
    /\ status = "running"
    /\ stack = <<>>
    /\ roots = <<>>
    /\ status' = "done"
    /\ returned' = Some([visited |-> visited, inlining_map |-> inlining_map])
    /\ last' = Step("return", None)
    /\ UNCHANGED <<scx, mode, roots, visited, recursion_depths, inlining_map, stack,
                   diagnostics, outcomes>>

\* the pass is executed again, in a new session, over the same input
Outcome == [status |-> status, returned |-> returned]

run_again ==
    /\ status \in {"done", "fatal"}
    /\ Len(outcomes) + 1 < MaxRuns
    /\ outcomes' = Append(outcomes, Outcome)
    /\ status' = "idle"
    /\ diagnostics' = <<>>
    /\ returned' = None
    /\ last' = Step("none", None)
    /\ UNCHANGED <<scx, mode, roots, visited, recursion_depths, inlining_map, stack>>

Next ==
    \/ collect_crate_translation_items
    \/ collect_items_rec_visited
    \/ collect_items_rec_begin
    \/ collect_items_rec_end
    \/ collect_crate_translation_items_return

Spec == Init /\ [][Next]_vars

\* the traversal is a sequential computation: it always takes its next step
FairSpec == Spec /\ WF_vars(Next)

NextRuns == Next \/ run_again

\* the crate with the same items whose roots or neighbors come in the other
\* order
Reordered(crate) == Crate(crate.name, IF crate.k % 2 = 0 THEN crate.k + 1 ELSE crate.k - 1)

\* collect_crate_translation_items is called once more, with the same mode
\* and limits, on the same items in another order; what the run before gave
\* is kept for comparison
run_reordered ==
    /\ status \in {"done", "fatal"}
    /\ scx.crate.name = "order"
    /\ Len(outcomes) + 1 < MaxRuns
    /\ outcomes' = Append(outcomes, [status |-> status, returned |-> returned,
                                     diagnostics |-> diagnostics, crate |-> scx.crate])
    /\ scx' = [scx EXCEPT !.crate = Reordered(@)]
    /\ status' = "idle"
    /\ diagnostics' = <<>>
    /\ returned' = None
    /\ last' = Step("none", None)
    /\ UNCHANGED <<mode, roots, visited, recursion_depths, inlining_map, stack>>

NextOrders == Next \/ run_reordered

SpecOrders == Init /\ [][NextOrders]_vars

SpecRuns == Init /\ [][NextRuns]_vars

(***************************************************************************)
(* Notions the properties are stated with.                                 *)
(***************************************************************************)
Range(f) == {f[x] : x \in DOMAIN f}

\* the roots root discovery emits for the run's input
RootSet == Bind(tcx, LAMBDA t : Range(collect_roots(t, mode)))

\* what neighbor discovery yields for an item
Discovered(item) ==
    Bind(tcx, LAMBDA t :
        IF item.tag = "Static"
        THEN visit_drop_use(t, t.defs[item.node_id].ty[1], TRUE)
             \o collect_neighbours(t, Instance_mono(item.node_id))
        ELSE collect_neighbours(t, item.instance))

\* the neighbors neighbor discovery produces for an item; none when it
\* ends in a bug!()
NeighborSet(item) ==
    Bind(Discovered(item), LAMBDA found : IF Bugged(found) THEN {} ELSE Range(found))

\* the items of S reachable from the roots inside S, starting from R
RECURSIVE ReachWithin(_, _)
ReachWithin(R, S) ==
    LET more == {j \in S \ R : \E i \in R : j \in NeighborSet(i)}
    IN  IF more = {} THEN R ELSE ReachWithin(R \cup more, S)

Emitted(kind) == \E i \in 1..Len(diagnostics) : diagnostics[i].kind = kind

\* the active expansions of definition d
ActiveOf(d) ==
    {i \in 1..Len(stack) :
        /\ stack[i].starting_point.tag = "Fn"
        /\ stack[i].starting_point.instance.def.def_id = d}

\* the visited function items of definition d
VisitedOf(d) == {i \in visited : i.tag = "Fn" /\ i.instance.def.def_id = d}

(***************************************************************************)
(* C1: in every state of a run, and in the returned result, every item of  *)
(* the visited set is a root or a neighbor of a visited item that is       *)
(* itself reachable from a root; the visited set holds no orphan.          *)
(***************************************************************************)
C1_NoOrphans ==
    /\ status \in {"running", "done", "fatal"} =>
          visited = ReachWithin(RootSet \cap visited, visited)
    /\ returned # None =>
          returned[1].visited =
              ReachWithin(RootSet \cap returned[1].visited, returned[1].visited)

\* a non-root item, found as the neighbor of a non-root item, is visited
C1_Witness ==
    /\ status = "running"
    /\ last.op = "begin"
    /\ Len(stack) >= 3
    /\ last.item \notin RootSet
    /\ stack[Len(stack) - 1].starting_point \notin RootSet

(***************************************************************************)
(* C2: when collect_crate_translation_items returns, the visited set       *)
(* holds every root and, with every item, all the neighbors that neighbor  *)
(* discovery produces for it.                                              *)
(***************************************************************************)
C2_Closed ==
    status = "done" =>
        /\ returned # None
        /\ RootSet \subseteq returned[1].visited
        /\ \A i \in returned[1].visited : NeighborSet(i) \subseteq returned[1].visited

\* a run returned a set with an item that has neighbors of its own
C2_Witness ==
    /\ status = "done"
    /\ \E i \in returned[1].visited \ RootSet : NeighborSet(i) \ RootSet # {}

(***************************************************************************)
(* C3: an item is expanded at most once in a run.  A call of               *)
(* collect_items_rec on a visited item returns at once: no guard runs, no  *)
(* neighbor is discovered, and the visited set, the recursion depths and   *)
(* the inlining map are left as they were.  An expansion is only ever      *)
(* begun for an item that was not visited, the visited set never shrinks   *)
(* during a run, and no item is active twice; so a function referring to   *)
(* itself at the same substitution is one visited entry and its            *)
(* definition's depth is never raised above one by it.                     *)
(***************************************************************************)
C3_ExpandedOnce ==
    /\ [][(Calling /\ starting_point \in visited) =>
            /\ visited' = visited
            /\ recursion_depths' = recursion_depths
            /\ inlining_map' = inlining_map
            /\ diagnostics' = diagnostics
            /\ status' = "running"
            /\ Len(stack') = Len(stack)]_vars
    /\ [][Len(stack') > Len(stack) =>
            /\ stack'[Len(stack')].starting_point \notin visited
            /\ stack'[Len(stack')].starting_point \in visited']_vars
    /\ [][status = "running" => visited \subseteq visited']_vars
    /\ [](\A i, j \in 1..Len(stack) :
            i # j => stack[i].starting_point # stack[j].starting_point)
    /\ [](scx.crate.name = "cycle" =>
            /\ Cardinality(VisitedOf("r")) <= 1
            /\ depth_of(recursion_depths, "r") <= 1)

\* the call an active item makes on itself has just returned at once
C3_Witness ==
    /\ status = "running"
    /\ last.op = "visited"
    /\ stack # <<>>
    /\ last.item = Top.starting_point

(***************************************************************************)
(* C4: on a program whose item graph is finite (cycles allowed) the run    *)
(* ends: it returns its result unless a diagnostic is raised, and it       *)
(* expands no more items than are reachable from the roots.                *)
(***************************************************************************)
\* the crates whose translation item graph is finite
FiniteGraph == scx.crate.name \notin {"grow", "pair"}

\* the items reachable from R in any number of steps
RECURSIVE Closure(_)
Closure(R) ==
    Bind(R \cup UNION {NeighborSet(i) : i \in R},
         LAMBDA next : IF next \subseteq R THEN next ELSE Closure(next))

C4_Terminates ==
    /\ FiniteGraph => <>(status = "done" \/ diagnostics # <<>>)
    /\ [](FiniteGraph /\ status # "idle" =>
            \A reachable \in {Cardinality(Closure(RootSet))} :
                /\ Cardinality(DOMAIN inlining_map.index) <= reachable
                /\ Cardinality(visited) <= reachable)

\* a run over a graph with cycles has returned
C4_Witness ==
    /\ status = "done"
    /\ scx.crate.name = "cycle"
    /\ Cardinality(returned[1].visited) = Cardinality(Closure(RootSet))

(***************************************************************************)
(* C5: f<T> refers to f<Wrap<T>>, the recursion limit is L.                *)
(* As claimed: the recursion-limit diagnostic is raised after exactly L    *)
(* nested instantiations of f have been entered.                           *)
(***************************************************************************)
C5_AfterLimitInstantiations ==
    (scx.crate.name = "grow" /\ Emitted("recursion_limit")) =>
        Cardinality(ActiveOf("f")) = scx.sess.recursion_limit

(***************************************************************************)
(* C5, amended: the recursion-limit diagnostic is raised by the attempt to *)
(* enter the (L+2)-th nested instantiation of f, that is after exactly     *)
(* L+1 nested instantiations have been entered and are active; never more  *)
(* than L+1 are active, and it is this diagnostic that ends the run        *)
(* whenever the type-length limit admits the first L+1 instantiations.     *)
(***************************************************************************)
C5_AfterLimitPlusOne ==
    scx.crate.name = "grow" =>
        /\ Cardinality(ActiveOf("f")) <= scx.sess.recursion_limit + 1
        /\ Emitted("recursion_limit") =>
              /\ status = "fatal"
              /\ Cardinality(ActiveOf("f")) = scx.sess.recursion_limit + 1
              /\ Cardinality(VisitedOf("f")) = scx.sess.recursion_limit + 2
        /\ (status = "fatal" /\ scx.sess.type_length_limit >= scx.sess.recursion_limit + 1)
              => Emitted("recursion_limit")
        /\ status # "done"

\* the diagnostic was raised under a limit of at least one
C5_Witness ==
    /\ scx.crate.name = "grow"
    /\ scx.sess.recursion_limit >= 1
    /\ Emitted("recursion_limit")

(***************************************************************************)
(* C6: main refers to id<T> at k distinct substitutions, as siblings.      *)
(* Each sibling is entered with the depth of id at its value before the    *)
(* reference, and leaves it there; the recursion-limit diagnostic is never *)
(* raised, however large k is; the run returns k distinct items of id,     *)
(* all of them neighbors of main.                                          *)
(***************************************************************************)
C6_Siblings ==
    scx.crate.name = "siblings" =>
        /\ ~Emitted("recursion_limit")
        /\ (last.op = "begin" /\ last.item \in VisitedOf("id")) =>
              depth_of(recursion_depths, "id") = 1
        /\ (last.op = "end" /\ last.item \in VisitedOf("id")) =>
              depth_of(recursion_depths, "id") = 0
        /\ scx.sess.type_length_limit >= scx.crate.k => status # "fatal"
        /\ status = "done" =>
              /\ Cardinality(VisitedOf("id")) = scx.crate.k
              /\ VisitedOf("id") \subseteq returned[1].visited
              /\ VisitedOf("id") \subseteq NeighborSet(TransItem_Fn(Instance_mono("main")))

\* more siblings than the limit admits nested instantiations, and the run returned
C6_Witness ==
    /\ scx.crate.name = "siblings"
    /\ scx.crate.k > scx.sess.recursion_limit + 1
    /\ status = "done"
    /\ Cardinality(VisitedOf("id")) = scx.crate.k

(***************************************************************************)
(* C7: when a function item is expanded (and the recursion guard lets it   *)
(* pass), the type-length diagnostic is raised, and the run aborted, if    *)
(* and only if the number of type nodes of its substitution is strictly    *)
(* greater than the limit; at the limit neighbor discovery goes ahead.     *)
(* The diagnostic is never raised for a static.                            *)
(***************************************************************************)
\* the step raises the type-length diagnostic
RaisesTypeLength ==
    /\ Len(diagnostics') > Len(diagnostics)
    /\ \E i \in (Len(diagnostics) + 1)..Len(diagnostics') :
          diagnostics'[i].kind = "type_length_limit"

C7_TypeLength ==
    [][(Calling /\ starting_point \notin visited) =>
         IF starting_point.tag = "Static" THEN ~RaisesTypeLength
         ELSE IF check_recursion_limit(scx.sess, starting_point.instance,
                                       recursion_depths).fatal
         THEN ~RaisesTypeLength
         ELSE /\ RaisesTypeLength <=>
                    type_length(starting_point.instance) > scx.sess.type_length_limit
              /\ RaisesTypeLength => status' = "fatal" /\ Len(stack') = Len(stack)
              /\ type_length(starting_point.instance) <= scx.sess.type_length_limit
                    => (status' = "running" <=> ~Bugged(Discovered(starting_point)))]_vars

\* an item whose type length equals the limit has been expanded
C7_Witness ==
    /\ status = "running"
    /\ last.op = "begin"
    /\ last.item.tag = "Fn"
    /\ type_length(last.item.instance) = scx.sess.type_length_limit
    /\ Top.starting_point = last.item

(***************************************************************************)
(* C8: a fatal condition aborts the whole run where it is detected.  Once  *)
(* a diagnostic has been raised the run is aborted; the step that raises   *)
(* it enters no expansion; an aborted run expands no further item, changes *)
(* none of its collections, and returns neither a visited set nor an       *)
(* inlining map, although roots or neighbors are still waiting.            *)
(***************************************************************************)
C8_FatalAborts ==
    /\ [](diagnostics # <<>> => status = "fatal")
    /\ [](status = "fatal" => returned = None /\ diagnostics # <<>>)
    /\ [][diagnostics' # diagnostics =>
             /\ status' = "fatal"
             /\ Len(stack') <= Len(stack)
             /\ inlining_map' = inlining_map]_vars
    /\ [][status = "fatal" =>
             UNCHANGED <<visited, inlining_map, recursion_depths, stack, roots,
                         returned, status>>]_vars

\* the run was aborted with items found and work still waiting
C8_Witness ==
    /\ status = "fatal"
    /\ last.op = "fatal"
    /\ Cardinality(visited) >= 2
    /\ \/ roots # <<>>
       \/ \E i \in 1..Len(stack) : stack[i].neighbors # <<>>

C10_RecordedOnce ==
    /\ [](~Emitted("assertion"))
    /\ [](DOMAIN inlining_map.index \subseteq visited)
    /\ [](status = "done" =>
             /\ DOMAIN inlining_map.index = visited
             /\ DOMAIN returned[1].inlining_map.index = returned[1].visited)
    /\ [][(Calling /\ starting_point \notin visited /\ status' = "running") =>
             /\ starting_point \notin DOMAIN inlining_map.index
             /\ DOMAIN inlining_map'.index = DOMAIN inlining_map.index \cup {starting_point}
             /\ \A source \in DOMAIN inlining_map.index :
                   with_inlining_candidates(inlining_map', source)
                      = with_inlining_candidates(inlining_map, source)]_vars
    /\ [][(status = "running" /\ ~(Calling /\ starting_point \notin visited)) =>
             inlining_map' = inlining_map]_vars

\* a run over a graph with a cycle has returned: items were met again
C10_Witness ==
    /\ scx.crate.name = "cycle"
    /\ status = "done"
    /\ Cardinality(DOMAIN inlining_map.index) >= 4
    /\ \E source \in visited : with_inlining_candidates(inlining_map, source) # <<>>

(***************************************************************************)
(* C11: for every source recorded in the inlining map,                     *)
(* with_inlining_candidates hands out exactly the neighbors of the source  *)
(* whose instantiation mode is LocalCopy, in the order neighbor discovery  *)
(* produced them, and none whose mode is GloballyShared; for an item that  *)
(* was never recorded (a root or neighbor still waiting) it hands out      *)
(* nothing.                                                                *)
(***************************************************************************)
\* the roots and neighbors met so far
Known ==
    RootSet \cup visited \cup UNION {NeighborSet(i) : i \in visited}

C11_Candidates ==
    /\ \A source \in DOMAIN inlining_map.index :
          LET handed == with_inlining_candidates(inlining_map, source)
          IN  /\ handed = SelectSeq(Discovered(source),
                              LAMBDA x : instantiation_mode(tcx, x) = "LocalCopy")
              /\ \A i \in 1..Len(handed) :
                    instantiation_mode(tcx, handed[i]) # "GloballyShared"
    /\ \A item \in Known \ DOMAIN inlining_map.index :
          with_inlining_candidates(inlining_map, item) = <<>>

\* a recorded source whose range starts inside the target vector, a source
\* with a shared neighbor left out and a private one handed out, and an
\* item still unrecorded
C11_Witness ==
    /\ status \in {"running", "done"}
    /\ \E source \in DOMAIN inlining_map.index :
          /\ inlining_map.index[source][1] > 0
          /\ with_inlining_candidates(inlining_map, source) # <<>>
    /\ \E source \in DOMAIN inlining_map.index :
          /\ with_inlining_candidates(inlining_map, source) # <<>>
          /\ \E n \in NeighborSet(source) : instantiation_mode(tcx, n) = "GloballyShared"
    /\ Known \ DOMAIN inlining_map.index # {}

(***************************************************************************)
(* C12: no item of the visited set carries an unresolved type parameter:   *)
(* the substitution of every visited function item is free of parameters, *)
(* and so is the substitution of every neighbor a visited item produces.   *)
(***************************************************************************)
\* the item's substitution mentions no type parameter
Monomorphic(item) ==
    item.tag = "Fn" =>
        \A i \in 1..Len(item.instance.substs) : ~needs_subst(item.instance.substs[i])

C12_Monomorphic ==
    /\ \A item \in visited : Monomorphic(item)
    /\ \A item \in visited : \A n \in NeighborSet(item) : Monomorphic(n)

(***************************************************************************)
(* C13: an unsizing cast in the body of a visited item whose resolved pair *)
(* is (concrete type X, trait object of T) pushes every vtable method of   *)
(* T, those of supertraits included, resolved against X, when the linkage  *)
(* oracle accepts it, and always pushes the drop glue of X, whether X      *)
(* needs dropping or not; what it pushes are neighbors of the item; a cast *)
(* whose resolved target is no trait object pushes nothing.                *)
(***************************************************************************)
\* the body neighbor discovery scans for an item, and the item's substitution
BodyOf(item) ==
    IF item.tag = "Static" THEN instance_mir(tcx, Instance_mono(item.node_id).def)
    ELSE instance_mir(tcx, item.instance.def)

SubstsOf(item) == IF item.tag = "Static" THEN <<>> ELSE item.instance.substs

\* the drop glue item of a type
DropGlueOf(t) == TransItem_Fn(resolve_drop_in_place(tcx, t))

C13_VtableMethods ==
    /\ \A item \in visited : \A i \in 1..Len(BodyOf(item)) :
          (BodyOf(item)[i].op = "Unsize" /\ ~Bugged(Discovered(item))) =>
             LET c == BodyOf(item)[i]
                 pair == find_vtable_types_for_unsizing(tcx,
                             apply_param_substs(SubstsOf(item), c.substs[1]),
                             apply_param_substs(SubstsOf(item), c.substs[2]))
                 pushed == visit_construct(tcx, SubstsOf(item), c)
             IN  IF is_trait(pair[2]) /\ ~is_trait(pair[1])
                 THEN LET methods == tcx.defs[pair[2].args[1].con].methods
                      IN  /\ \A j \in 1..Len(methods) : methods[j] # None =>
                                LET m == resolve(tcx, methods[j][1], <<pair[1]>>)
                                IN  (should_trans_locally(tcx, m) = "true")
                                       <=> (TransItem_Fn(m) \in Range(pushed))
                          /\ DropGlueOf(pair[1]) \in Range(pushed)
                          /\ Range(pushed) \subseteq NeighborSet(item)
                          /\ status = "done" => Range(pushed) \subseteq visited
                 ELSE pushed = <<>>
    /\ (scx.crate.name = "vtable" /\ status = "done") =>
          /\ TransItem_Fn(Instance(InstanceDef("Item", "Shape_describe", None), <<Circle>>))
                \in visited
          /\ TransItem_Fn(Instance_mono("Circle_area")) \in visited
          /\ TransItem_Fn(Instance_mono("Circle_name")) \in visited
          /\ TransItem_Fn(Instance(InstanceDef("DropGlue", drop_in_place_fn, None),
                                   <<Circle>>)) \in visited
          /\ TransItem_Fn(Instance(InstanceDef("DropGlue", drop_in_place_fn, Some(String)),
                                   <<String>>)) \in visited
          /\ VisitedOf("String_fmt") = {}
          /\ \A item \in visited : item.tag = "Fn" =>
                \A i \in 1..Len(item.instance.substs) :
                    item.instance.substs[i].con \notin {"Array", "Slice"}

\* lazy mode: the cast to the trait object is the only reference to the
\* provided method and to the drop glue of a type that needs no dropping
C13_Witness ==
    /\ scx.crate.name = "vtable"
    /\ mode = "Lazy"
    /\ status = "done"
    /\ DropGlueOf(Circle) \in visited
    /\ VisitedOf("Shape_describe") # {}

(***************************************************************************)
(* C14: should_trans_locally is true for every closure-once shim, virtual, *)
(* fn-pointer shim, drop-glue and intrinsic instance, wherever its         *)
(* definition lives; for a plain item of the current crate it is true      *)
(* unless the item is a foreign declaration, and then false; for a plain   *)
(* item of a dependency it is false whenever the item is an exported       *)
(* symbol or a foreign item, even with its MIR available, and true when it *)
(* is neither and its MIR is available.  A call of x becomes a neighbor of *)
(* main exactly when the oracle is true for x.                             *)
(***************************************************************************)
ShimKinds == {"ClosureOnceShim", "Virtual", "FnPtrShim", "DropGlue", "Intrinsic"}

MissingBody ==
    /\ scx.crate.name = "oracle"
    /\ tcx.defs["x"].krate = "upstream"
    /\ ~tcx.defs["x"].exported /\ ~tcx.defs["x"].foreign
    /\ ~tcx.defs["x"].mir_available

\* x is defined in a dependency and is an exported symbol or a foreign item
LinkedTo ==
    /\ scx.crate.name = "oracle"
    /\ tcx.defs["x"].krate = "upstream"
    /\ tcx.defs["x"].exported \/ tcx.defs["x"].foreign

\* main, whose body calls x, has been expanded or has failed to
MainEntered == TransItem_Fn(Instance_mono("main")) \in visited

AdtNodes == {"ItemEnum", "ItemStruct", "ItemUnion"}

\* the type of a declared struct, enum or union: def_ty at the empty substitution
def_ty(item) == tcx.defs[item.id].ty[1]

C17_DropGlueRoots ==
    \A i \in 1..Len(tcx.hir) :
        LET item == tcx.hir[i]
            contribution == RootCollector_visit(tcx, mode, item)
        IN  /\ (mode = "Lazy" /\ item.node \in AdtNodes \cup {"ItemImpl"}) =>
                   contribution = <<>>
            /\ (item.node \in AdtNodes /\ ~is_parameterized(item)
                    /\ needs_drop(def_ty(item))) =>
                   /\ mode = "Eager" =>
                         /\ contribution = <<DropGlueOf(def_ty(item))>>
                         /\ status = "running" =>
                               DropGlueOf(def_ty(item)) \in Range(roots) \cup visited
                         /\ status = "done" => DropGlueOf(def_ty(item)) \in visited
                   /\ mode = "Lazy" =>
                         /\ DropGlueOf(def_ty(item)) \notin Range(roots)
                         /\ DropGlueOf(def_ty(item)) \in visited =>
                               \E v \in visited : DropGlueOf(def_ty(item)) \in NeighborSet(v)

\* an eager run has completed with the drop glue of Holder, which no body
\* refers to, in its result
C17_Witness ==
    /\ scx.crate.name = "roots" /\ mode = "Eager" /\ status = "done"
    /\ DropGlueOf(Holder) \in visited
    /\ \A v \in visited \ {DropGlueOf(Holder)} : DropGlueOf(Holder) \notin NeighborSet(v)

(***************************************************************************)
(* C18: in both modes a free function without type parameters contributes  *)
(* a Function root, an impl method a Function root when neither it nor its *)
(* impl has type parameters, a static a Static root, and these are in the  *)
(* result of a completed run; a function or method with type parameters, a *)
(* method of a type-parameterized impl, a trait item and a const           *)
(* contribute nothing, and no root is of their definition at the empty     *)
(* substitution.                                                           *)
(***************************************************************************)
\* the definition of a root: of a Function item or of a Static item
RootDefOf(root) == IF root.tag = "Static" THEN root.node_id ELSE root.instance.def.def_id

C18_Roots ==
    \A i \in 1..Len(tcx.hir) : \A m \in {"Eager", "Lazy"} :
        LET item == tcx.hir[i]
            contribution == RootCollector_visit(tcx, m, item)
            fn_root == TransItem_Fn(Instance_mono(item.id))
            emitted == \/ item.node = "ItemFn" /\ item.generics = 0
                       \/ item.node = "ImplItemMethod" /\ item.generics = 0
                             /\ item.impl_generics = 0
                       \/ item.node = "ItemStatic"
            root == IF item.node = "ItemStatic" THEN TransItem_Static(item.id) ELSE fn_root
        IN  /\ emitted =>
                  /\ contribution = <<root>>
                  /\ (m = mode /\ status = "running") => root \in Range(roots) \cup visited
                  /\ (m = mode /\ status = "done") => root \in visited
            /\ (~emitted /\ item.node \in {"ItemFn", "ImplItemMethod", "TraitItemMethod",
                                            "ItemConst"}) =>
                  /\ contribution = <<>>
                  /\ ~Bugged(collect_roots(tcx, m)) =>
                        \A r \in Range(collect_roots(tcx, m)) :
                            /\ r # fn_root /\ r # TransItem_Static(item.id)
                            /\ item.node # "TraitItemMethod" => RootDefOf(r) # item.id

\* a lazy run of the crate with item-likes of every kind has completed
C18_Witness ==
    /\ scx.crate.name = "roots" /\ mode = "Lazy" /\ status = "done"
    /\ {TransItem_Fn(Instance_mono("lt_fn")), TransItem_Fn(Instance_mono("Holder_get")),
        TransItem_Static("S2")} \subseteq visited
    /\ \A v \in visited : RootDefOf(v) \notin {"gen_fn", "Holder_map", "Gen_method",
                                                "Tr_default", "K"}

(***************************************************************************)
(* C19: at every point of the traversal the depth stored for a definition  *)
(* (0 when absent), the drop-in-place definition included, is the number   *)
(* of function items of that definition whose expansion is active.         *)
(***************************************************************************)
C19_DepthIsActiveCount ==
    status = "running" =>
        \A d \in DOMAIN tcx.defs :
            depth_of(recursion_depths, d) = Cardinality(ActiveOf(d))

(***************************************************************************)
(* C20: when collect_items_rec returns, the depth stored for every         *)
(* definition, the drop-in-place definition included, is the depth the     *)
(* call was made with.                                                     *)
(***************************************************************************)
C20_DepthsRestored ==
    [][collect_items_rec_end =>
          \A d \in DOMAIN tcx.defs :
              depth_of(recursion_depths', d) = depth_of(Top.called_with, d)]_vars

(***************************************************************************)
(* C21: for drop_in_place the guard compares the depth divided by four     *)
(* with the limit, and nesting is still bounded: an expansion of drop glue *)
(* is entered only while the number of drop-glue expansions active around  *)
(* it, divided by four, does not exceed the limit.                         *)
(***************************************************************************)
C21_DropNestingBounded ==
    (status = "running" /\ ActiveOf(drop_in_place_fn) # {}) =>
        (Cardinality(ActiveOf(drop_in_place_fn)) - 1) \div 4 <= scx.sess.recursion_limit

(***************************************************************************)
(* C22: every function item that is a root, a queued neighbor or a visited *)
(* item satisfies the linkage oracle, and the sanity assertion at the      *)
(* start of an expansion never fails.                                      *)
(***************************************************************************)
\* the items queued as neighbors of the active expansions
Queued == UNION {Range(stack[i].neighbors) : i \in 1..Len(stack)}

C22_OracleOnAll ==
    /\ \A item \in visited \cup Range(roots) \cup Queued :
          item.tag = "Fn" => should_trans_locally(tcx, item.instance) = "true"
    /\ ~Emitted("assertion")

\* a run has completed in which a visited item calls an item the oracle rejects
C22_Witness ==
    /\ status = "done"
    /\ \E item \in visited : \E i \in 1..Len(BodyOf(item)) :
          /\ BodyOf(item)[i].op = "Call"
          /\ should_trans_locally(tcx, resolve(tcx, BodyOf(item)[i].def_id,
                 apply_param_substs_list(SubstsOf(item), BodyOf(item)[i].substs))) = "false"

(***************************************************************************)
(* C23: an intrinsic never becomes a translation item: a call of an        *)
(* intrinsic adds no neighbor, and a reified intrinsic ends the run with   *)
(* an internal error as soon as the item that reifies it is expanded.      *)
(***************************************************************************)
\* the instance the construct i of the body of item refers to
Referred(item, i) ==
    resolve(tcx, IF BodyOf(item)[i].op = "Drop" THEN drop_in_place_fn
                 ELSE BodyOf(item)[i].def_id,
            apply_param_substs_list(SubstsOf(item), BodyOf(item)[i].substs))

\* what the construct i of the body of item adds to the neighbors
Added(item, i) == visit_construct(tcx, SubstsOf(item), BodyOf(item)[i])

C23_Intrinsics ==
    /\ \A item \in visited \cup Range(roots) \cup Queued :
          item.tag = "Fn" => item.instance.def.kind # "Intrinsic"
    /\ \A item \in visited : \A i \in 1..Len(BodyOf(item)) :
          (BodyOf(item)[i].op \in {"Call", "Reify"}
             /\ Referred(item, i).def.kind = "Intrinsic") =>
                IF BodyOf(item)[i].op = "Call"
                THEN Added(item, i) = <<>>
                ELSE /\ Added(item, i) = <<ICE>>
                     /\ status = "fatal" /\ diagnostics # <<>> /\ returned = None

\* the run was stopped by the internal error of a reified intrinsic
C23_Witness ==
    /\ status = "fatal" /\ Emitted("bug")
    /\ \E item \in visited : \E i \in 1..Len(BodyOf(item)) : \E j \in 1..Len(BodyOf(item)) :
          /\ BodyOf(item)[i].op = "Reify" /\ Referred(item, i).def.kind = "Intrinsic"
          /\ BodyOf(item)[j].op = "Call" /\ Referred(item, j).def.kind = "Intrinsic"

(***************************************************************************)
(* C24: for a use the oracle accepts, a virtual-dispatch instance or the   *)
(* drop glue of a type that needs no dropping is added if and only if the  *)
(* use is indirect; a plain item, a closure-once shim or a fn-pointer shim *)
(* is added for direct and indirect uses alike, and so is the drop glue of *)
(* a type that needs dropping.                                             *)
(***************************************************************************)
\* a call or a drop is a direct use, a reification an indirect one
IsDirect(c) == c.op # "Reify"

C24_IndirectOnlyShims ==
    \A item \in visited : \A i \in 1..Len(BodyOf(item)) :
        (BodyOf(item)[i].op \in {"Call", "Reify", "Drop"}
           /\ should_trans_locally(tcx, Referred(item, i)) = "true") =>
            LET def == Referred(item, i).def
                neighbor == create_fn_trans_item(Referred(item, i))
            IN  /\ (def.kind = "Virtual" \/ (def.kind = "DropGlue" /\ def.ty = None)) =>
                      Added(item, i) = IF IsDirect(BodyOf(item)[i]) THEN <<>>
                                       ELSE <<neighbor>>
                /\ def.kind \in {"Item", "ClosureOnceShim", "FnPtrShim"} =>
                      Added(item, i) = <<neighbor>>
                /\ (def.kind = "DropGlue" /\ def.ty # None) =>
                      /\ Added(item, i) # <<>>
                      /\ Added(item, i)[Len(Added(item, i))] = neighbor
                /\ (status = "done" /\ Added(item, i) # <<>>) => neighbor \in visited

\* a completed run in which one item calls and reifies a virtual method,
\* drops and reifies the drop of a type without destructor, and calls through
\* a function pointer
C24_Witness ==
    /\ status = "done"
    /\ \E item \in visited :
          /\ \E i \in 1..Len(BodyOf(item)) :
                /\ BodyOf(item)[i].op = "Call" /\ Referred(item, i).def.kind = "Virtual"
                /\ Added(item, i) = <<>>
          /\ \E i \in 1..Len(BodyOf(item)) :
                /\ BodyOf(item)[i].op = "Reify" /\ Referred(item, i).def.kind = "Virtual"
                /\ Referred(item, i) \in {v.instance : v \in {w \in visited : w.tag = "Fn"}}
          /\ \E i \in 1..Len(BodyOf(item)) :
                /\ BodyOf(item)[i].op = "Drop" /\ Referred(item, i).def.kind = "DropGlue"
                /\ Referred(item, i).def.ty = None
          /\ \E i \in 1..Len(BodyOf(item)) :
                /\ BodyOf(item)[i].op = "Reify" /\ Referred(item, i).def.kind = "DropGlue"
                /\ Referred(item, i).def.ty = None
          /\ \E i \in 1..Len(BodyOf(item)) :
                /\ BodyOf(item)[i].op = "Call" /\ Referred(item, i).def.kind = "FnPtrShim"

(***************************************************************************)
(* C25: a direct drop of an array or slice that needs dropping adds the    *)
(* drop glue of the element type, as an indirect use, and then the drop    *)
(* glue of the array or slice itself; an indirect drop of one, or a drop   *)
(* of any other type that needs dropping, adds that type's drop glue only. *)
(***************************************************************************)
\* the construct drops a value: a drop, or a use of drop_in_place itself
IsDropUse(c) == c.op = "Drop" \/ (c.op \in {"Call", "Reify"} /\ c.def_id = drop_in_place_fn)

C25_ArrayDrop ==
    \A item \in visited : \A i \in 1..Len(BodyOf(item)) :
        (IsDropUse(BodyOf(item)[i]) /\ Referred(item, i).def.ty # None) =>
            LET ty == Referred(item, i).def.ty[1]
            IN  IF ty.con \in {"Array", "Slice"} /\ IsDirect(BodyOf(item)[i])
                THEN Added(item, i) =
                        visit_drop_use(tcx, ty.args[1], FALSE) \o <<DropGlueOf(ty)>>
                     /\ Added(item, i) = <<DropGlueOf(ty.args[1]), DropGlueOf(ty)>>
                ELSE Added(item, i) = <<DropGlueOf(ty)>>

\* a completed run in which an item drops a slice of arrays directly, an
\* array directly and a slice indirectly
C25_Witness ==
    /\ status = "done"
    /\ \E item \in visited :
          /\ \E i \in 1..Len(BodyOf(item)) :
                /\ BodyOf(item)[i].op = "Drop"
                /\ Referred(item, i).def.ty # None
                /\ Referred(item, i).def.ty[1].con = "Slice"
                /\ Referred(item, i).def.ty[1].args[1].con = "Array"
                /\ Range(Added(item, i)) \subseteq visited
          /\ \E i \in 1..Len(BodyOf(item)) :
                /\ BodyOf(item)[i].op = "Reify"
                /\ Referred(item, i).def.ty # None
                /\ Referred(item, i).def.ty[1].con = "Slice"
                /\ Len(Added(item, i)) = 1

(***************************************************************************)
(* C26, as claimed: every closure-construction expression in the body of   *)
(* an expanded item adds the closure's call-operator instance, for some    *)
(* closure kind, to the neighbors of the item.                             *)
(***************************************************************************)
\* the call-operator instance of the closure c builds, for the kind k
ClosureItem(item, c, k) ==
    create_fn_trans_item(resolve_closure(tcx, c.def_id,
        apply_param_substs_list(SubstsOf(item), c.substs), k))

IsClosureInstance(item) ==
    /\ item.tag = "Fn"
    /\ \/ item.instance.def.kind = "ClosureOnceShim"
       \/ /\ item.instance.def.kind = "Item"
          /\ tcx.defs[item.instance.def.def_id].kind = "closure"

TraitImpls ==
    {i \in 1..Len(tcx.hir) : /\ tcx.hir[i].node = "ItemImpl"
                              /\ ~is_type_parameterized(tcx.hir[i])
                              /\ tcx.hir[i].trait_ref # None}

\* the provided methods of the trait the impl at position i implements
ProvidedOf(i) == Range(tcx.defs[tcx.hir[i].trait_ref[1][1]].provided)

\* the provided method is among the roots the item-like contributes
Seeded(contribution, method, self_ty) ==
    \/ \E j \in 1..Len(contribution) :
          /\ contribution[j].tag = "Fn"
          /\ contribution[j].instance.def.def_id = method.def_id
    \/ /\ tcx.defs[method.def_id].types = 0
       /\ create_fn_trans_item(resolve(tcx, method.def_id, <<self_ty>>))
             \in Range(contribution)

C28_DefaultImpls ==
    /\ \A i \in TraitImpls :
          LET item == tcx.hir[i]
              eager == RootCollector_visit(tcx, "Eager", item)
              self_ty == item.trait_ref[1][2]
          IN  /\ ~Bugged(eager)
              /\ RootCollector_visit(tcx, "Lazy", item) = <<>>
              /\ \A method \in ProvidedOf(i) :
                    /\ Seeded(eager, method, self_ty) <=>
                          /\ method.name \notin item.impl_item_refs
                          /\ tcx.defs[method.def_id].types = 0
                          /\ normalize_and_test_predicates(tcx,
                                 resolve(tcx, method.def_id, <<self_ty>>))
                          /\ should_trans_locally(tcx,
                                 resolve(tcx, method.def_id, <<self_ty>>)) = "true"
                    /\ Seeded(eager, method, self_ty) =>
                          /\ create_fn_trans_item(resolve(tcx, method.def_id, <<self_ty>>))
                                \in Range(eager)
                          /\ (mode = "Eager" /\ status = "done") =>
                                create_fn_trans_item(resolve(tcx, method.def_id, <<self_ty>>))
                                    \in visited
                    /\ mode = "Lazy" =>
                          \A r \in Range(roots) :
                              r.tag = "Fn" => r.instance.def.def_id # method.def_id
    /\ \A i \in 1..Len(tcx.hir) :
          (tcx.hir[i].node = "ItemImpl" /\ i \notin TraitImpls) =>
              /\ RootCollector_visit(tcx, "Eager", tcx.hir[i]) = <<>>
              /\ RootCollector_visit(tcx, "Lazy", tcx.hir[i]) = <<>>

\* a completed eager run over impls that inherit, override and cannot have
\* the provided methods of their traits
C28_Witness ==
    /\ mode = "Eager" /\ status = "done"
    /\ \E i \in TraitImpls : \E a, b, c \in ProvidedOf(i) :
          LET eager == RootCollector_visit(tcx, "Eager", tcx.hir[i])
              self_ty == tcx.hir[i].trait_ref[1][2]
          IN  /\ Seeded(eager, a, self_ty)
              /\ ~Seeded(eager, b, self_ty) /\ b.name \in tcx.hir[i].impl_item_refs
              /\ ~Seeded(eager, c, self_ty) /\ tcx.defs[c.def_id].types > 0
    /\ \E i \in TraitImpls : \E d \in ProvidedOf(i) :
          /\ ~Seeded(RootCollector_visit(tcx, "Eager", tcx.hir[i]), d,
                     tcx.hir[i].trait_ref[1][2])
          /\ d.name \notin tcx.hir[i].impl_item_refs
          /\ tcx.defs[d.def_id].types = 0
    /\ \E i \in TraitImpls : \E a \in ProvidedOf(i) :
          /\ tcx.defs[a.def_id].krate = "upstream"
          /\ \E v \in visited : v.tag = "Fn" /\ v.instance.def.def_id = a.def_id

(***************************************************************************)
(* C29, as claimed: for every combination of a source that is a reference  *)
(* or a raw pointer with a target that is a reference or a raw pointer,    *)
(* find_vtable_types_for_unsizing reduces to the pointee types.            *)
(***************************************************************************)
\* the types a pointer of the crate with the trait objects may point to
Pointees == {Circle, U32, Dynamic("Shape"), Dynamic("Base"), Array(U32), Slice(U32),
             Wrap(Circle), Wrap(Dynamic("Shape"))}

\* the types of the values an unsizing cast may be applied to
Pointers == UNION {{Ref(p), RawPtr(p), Box(p), Rc(p)} : p \in Pointees}

\* pairs of source and target type: the bounded ones, and those of the
\* unsizing casts in the bodies of the visited items
Coercions ==
    ((Pointers \cup {Circle, Wrap(Circle)}) \X (Pointers \cup {Wrap(Dynamic("Shape"))}))
    \cup UNION {{<<apply_param_substs(SubstsOf(item), BodyOf(item)[i].substs[1]),
                    apply_param_substs(SubstsOf(item), BodyOf(item)[i].substs[2])>> :
                     i \in {j \in 1..Len(BodyOf(item)) : BodyOf(item)[j].op = "Unsize"}} :
                item \in visited}

\* what a pair of pointee types reduces to
PointeePair(a, b) ==
    IF type_is_sized(tcx, a) THEN struct_lockstep_tails(tcx, a, b) ELSE <<a, b>>

IsConst(d) == d \in DOMAIN tcx.defs /\ tcx.defs[d].kind = "const"

\* what the constructs before position i of the body of item add
AddedBefore(item, i) == visit_mir(tcx, SubstsOf(item), SubSeq(BodyOf(item), 1, i - 1), 1)

C30_ConstantsInline ==
    /\ \A item \in visited \cup Range(roots) \cup Queued : ~IsConst(RootDefOf(item))
    /\ \A d \in DOMAIN recursion_depths : ~IsConst(d)
    /\ \A item \in visited : \A i \in 1..Len(BodyOf(item)) :
          BodyOf(item)[i].op = "Constant" =>
             LET k == Referred(item, i)
                 body == instance_mir(tcx, k.def)
                 added == Added(item, i)
             IN  /\ IsConst(k.def.def_id)
                 /\ added = collect_neighbours(tcx, k)
                 /\ \A j \in 1..Len(body) :
                       \A n \in Range(visit_construct(tcx, k.substs, body[j])) :
                           n \in Range(added)
                 /\ (item.tag = "Fn" /\ ~Bugged(Discovered(item))) =>
                       /\ SubSeq(Discovered(item), Len(AddedBefore(item, i)) + 1,
                                 Len(AddedBefore(item, i)) + Len(added)) = added
                       /\ Range(added) \subseteq NeighborSet(item)
                       /\ status = "done" => Range(added) \subseteq visited

\* a completed run: a constant that refers to a second constant is referred
\* to from two items, and what both constants refer to is visited
C30_Witness ==
    /\ status = "done"
    /\ \E a, b \in visited : \E i \in 1..Len(BodyOf(a)) : \E j \in 1..Len(BodyOf(b)) :
          /\ a # b
          /\ BodyOf(a)[i].op = "Constant" /\ BodyOf(b)[j].op = "Constant"
          /\ Referred(a, i) = Referred(b, j)
          /\ Len(Added(a, i)) >= 2
          /\ Added(a, i) = Added(b, j)
          /\ \E n \in 1..Len(instance_mir(tcx, Referred(a, i).def)) :
                instance_mir(tcx, Referred(a, i).def)[n].op = "Constant"
    /\ \E a \in visited : \E i \in 1..Len(BodyOf(a)) :
          /\ BodyOf(a)[i].op = "Constant"
          /\ a.instance.substs # <<>>
          /\ Added(a, i) # <<>>

(***************************************************************************)
(* C31: in every state of the inlining map each recorded source owns a     *)
(* range (start, end) with start <= end <= the length of the target        *)
(* vector; the ranges of distinct sources do not overlap and together      *)
(* cover the target vector exactly; recording a source appends to the      *)
(* vector and leaves the range and the targets of every source recorded    *)
(* earlier as they were.                                                   *)
(***************************************************************************)
\* the positions of the target vector between start (inclusive) and end
\* (exclusive), counted from zero
RangeOf(map, source) == {p \in 0..(Len(map.targets) - 1) :
                            map.index[source][1] <= p /\ p < map.index[source][2]}

\* the target vector of the map a is a prefix of that of the map b
Extends(a, b) ==
    /\ Len(a.targets) <= Len(b.targets)
    /\ SubSeq(b.targets, 1, Len(a.targets)) = a.targets

C31_Ranges ==
    /\ [](\A source \in DOMAIN inlining_map.index :
             /\ 0 <= inlining_map.index[source][1]
             /\ inlining_map.index[source][1] <= inlining_map.index[source][2]
             /\ inlining_map.index[source][2] <= Len(inlining_map.targets)
             /\ Cardinality(RangeOf(inlining_map, source))
                   = inlining_map.index[source][2] - inlining_map.index[source][1])
    /\ [](\A a, b \in DOMAIN inlining_map.index :
             a # b =>
                /\ RangeOf(inlining_map, a) \cap RangeOf(inlining_map, b) = {}
                /\ \/ inlining_map.index[a][2] <= inlining_map.index[b][1]
                   \/ inlining_map.index[b][2] <= inlining_map.index[a][1])
    /\ [](UNION {RangeOf(inlining_map, source) : source \in DOMAIN inlining_map.index}
             = 0..(Len(inlining_map.targets) - 1))
    /\ [][status = "running" =>
             /\ Extends(inlining_map, inlining_map')
             /\ \A source \in DOMAIN inlining_map.index :
                   /\ source \in DOMAIN inlining_map'.index
                   /\ inlining_map'.index[source] = inlining_map.index[source]
                   /\ with_inlining_candidates(inlining_map', source)
                         = with_inlining_candidates(inlining_map, source)
             /\ \A source \in DOMAIN inlining_map'.index \ DOMAIN inlining_map.index :
                   /\ inlining_map'.index[source]
                         = <<Len(inlining_map.targets), Len(inlining_map'.targets)>>
                   /\ DOMAIN inlining_map'.index
                         = DOMAIN inlining_map.index \cup {source}]_vars

\* a run in progress: sources with targets were recorded one after another,
\* one of them not at the start of the vector, and a source without targets
\* was recorded after them
C31_Witness ==
    /\ status = "running"
    /\ \E a, b, c \in DOMAIN inlining_map.index :
          /\ inlining_map.index[a][1] = 0
          /\ inlining_map.index[a][2] > 0
          /\ inlining_map.index[b][1] = inlining_map.index[a][2]
          /\ inlining_map.index[b][2] > inlining_map.index[b][1]
          /\ inlining_map.index[c][1] = inlining_map.index[c][2]
          /\ inlining_map.index[c][1] = Len(inlining_map.targets)

(***************************************************************************)
(* C32, as claimed: for a fixed program, mode and limits, whether the      *)
(* recursion-limit diagnostic is raised does not depend on the order in    *)
(* which roots are expanded or neighbors are visited: a run over the same  *)
(* items in another order raises it exactly when the run before did.       *)
(***************************************************************************)
\* the run recorded as outcome raised the recursion-limit diagnostic
Raised(outcome) ==
    \E j \in 1..Len(outcome.diagnostics) : outcome.diagnostics[j].kind = "recursion_limit"

====
